---------------------------- MODULE Spec2Model ----------------------------
(***************************************************************************)
(* Pseudo-label heatmap generators and regression-disparity losses of      *)
(* uda/model/regda_7.py.                                                   *)
(*                                                                         *)
(* Numbers.  A float is modelled in fixed point: the integer v stands for  *)
(* v / Scale.  exp() is tabulated (Gauss), every other float operation is  *)
(* the corresponding integer operation on these units.  NaN, +Inf and -Inf *)
(* are three values outside the range the finite values can take.          *)
(*                                                                         *)
(* Tensors.  A tensor is [shape, data]: its 4-D shape and its elements in  *)
(* row-major (C) order, as in numpy and torch, so that reshape keeps data  *)
(* and changes shape.  Indices are 0-based, as in the source.              *)
(***************************************************************************)
EXTENDS Integers, Sequences, FiniteSets, TLC

VARIABLES
  gen,      \* the pseudo-label generator: cls, num_keypoints, height, width, sigma
  rd,       \* the RegressionDisparity instance: cls, label_x, ground_truth, ground_false
  call,     \* the arguments of the most recent forward call
  ret,      \* the outcome of the most recent forward call
  invoked,  \* the collaborators the most recent forward call invoked, in order
  env,      \* the caller's data: batch size and peak layout of its predictions
  probe,    \* the template-bank entry most recently read (bank specification)
  mem,      \* the arrays shared with the caller: the writes made to the bank since
            \* its construction, the tensors passed to the most recent call and
            \* the maps it returned as they are now, and the returned maps' buffers
  threads,  \* the forward calls in progress on the instance (concurrent callers)
  net       \* the PoseResNet model: cls, training, its gradient layer, the number of
            \* forward() and step() calls made and what the last forward returned

vars == <<gen, rd, call, ret, invoked, env, probe, mem, threads, net>>

-----------------------------------------------------------------------------
(* Bounds of the model *)

MaxSigma == 2
MaxBankH == 5
MaxBankW == 7
MaxB == 2
MaxK == 3
MaxH == 2
MaxW == 5

-----------------------------------------------------------------------------
(* Fixed-point floats *)

Scale == 10000

Max(a, b) == IF a >= b THEN a ELSE b
Min(a, b) == IF a <= b THEN a ELSE b

\* Python int() of the half-integer n/2: truncation toward zero.
IntOfHalves(n) == IF n >= 0 THEN n \div 2 ELSE -((-n) \div 2)

\* np.exp(-d2 / (2 * sigma ** 2)) in units of 1/Scale, d2 a sum of two squares.
GaussTable ==
  << <<
       10000, 6065, 3679, 2231, 1353, 821, 498, 302, 183, 111, 67, 41, 25,
       15, 9, 6, 3, 2, 1
     >>,
     <<
       10000, 8825, 7788, 6873, 6065, 5353, 4724, 4169, 3679, 3247, 2865,
       2528, 2231, 1969, 1738, 1534, 1353, 1194, 1054, 930, 821, 724, 639,
       564, 498, 439, 388, 342, 302, 266, 235, 208, 183, 162, 143, 126, 111,
       98, 87, 76, 67, 59, 52, 46, 41, 36, 32, 28, 25, 22, 19, 17, 15, 13,
       12, 10, 9, 8, 7, 6, 6, 5, 4, 4, 3, 3, 3, 2, 2, 2, 2, 1, 1
     >>,
     <<
       10000, 9460, 8948, 8465, 8007, 7575, 7165, 6778, 6412, 6065, 5738,
       5427, 5134, 4857, 4594, 4346, 4111, 3889, 3679, 3480, 3292, 3114,
       2946, 2787, 2636, 2494, 2359, 2231, 2111, 1997, 1889, 1787, 1690,
       1599, 1512, 1431, 1353, 1280, 1211, 1146, 1084, 1025, 970, 917, 868,
       821, 776, 735, 695, 657, 622, 588, 556, 526, 498, 471, 446, 421, 399,
       377, 357, 337, 319, 302, 286, 270, 256, 242, 229, 216, 205, 194, 183,
       173, 164, 155, 147, 139, 131, 124, 117, 111, 105, 99, 94, 89, 84, 80,
       75, 71, 67, 64, 60, 57, 54, 51, 48, 46, 43, 41, 39, 37, 35, 33, 31,
       29, 28, 26, 25, 23, 22, 21, 20, 19, 18, 17, 16, 15, 14, 13, 13, 12,
       11, 11, 10, 10, 9, 9, 8, 8, 7, 7, 7, 6, 6, 6, 5, 5, 5, 4, 4, 4, 4, 4,
       3, 3, 3, 3, 3, 3, 2, 2, 2, 2, 2, 2, 2, 2, 2, 1, 1, 1, 1
     >> >>

Gauss(sigma, d2) == GaussTable[sigma][d2 + 1]

-----------------------------------------------------------------------------
(* The template bank: __init__ of the four generator classes *)

GeneratorClasses ==
  {"PseudoLabelGenerator", "PseudoLabelGenerator01",
   "PseudoLabelGenerator02", "PseudoLabelGenerator03"}

\* 2 * tmp_size: tmp_size is sigma * 3, sigma * 1.5, sigma * 3, sigma * 2.
TmpSize2(cls, sigma) ==
  CASE cls = "PseudoLabelGenerator"   -> 6 * sigma
    [] cls = "PseudoLabelGenerator01" -> 3 * sigma
    [] cls = "PseudoLabelGenerator02" -> 6 * sigma
    [] cls = "PseudoLabelGenerator03" -> 4 * sigma

\* ul = int(mu - tmp_size), br = int(mu + tmp_size + 1), along one axis.
Ul(ts2, mu) == IntOfHalves(2 * mu - ts2)
Br(ts2, mu) == IntOfHalves(2 * mu + ts2 + 2)

\* size = 2 * tmp_size + 1; x = np.arange(0, size, 1); x0 = y0 = size // 2.
GSize(ts2) == ts2 + 1
GCenter(ts2) == GSize(ts2) \div 2

\* g[j][i] = np.exp(-((x - x0) ** 2 + (y - y0) ** 2) / (2 * sigma ** 2))
G(sigma, ts2, j, i) ==
  Gauss(sigma, (i - GCenter(ts2)) * (i - GCenter(ts2))
             + (j - GCenter(ts2)) * (j - GCenter(ts2)))

\* A clipping bug: the usable range always starts at the patch's first column.
GRangeUnclipped(ul, br, extent) == <<0, Min(br, extent) - ul>>

\* Usable gaussian range along one axis: max(0, -ul), min(br, extent) - ul.
GRange(ul, br, extent) == <<Max(0, -ul), Min(br, extent) - ul>>

\* Image range along one axis: max(0, ul), min(br, extent).
ImgRange(ul, br, extent) == <<Max(0, ul), Min(br, extent)>>

\* heatmaps[mu_x][mu_y][iy][ix] after the constructor's loop: zero, overwritten
\* on the image range by the usable range of g.
HeatmapAt(g, mu_x, mu_y, iy, ix) ==
  LET ts2   == TmpSize2(g.cls, g.sigma)
      ul_x  == Ul(ts2, mu_x)
      ul_y  == Ul(ts2, mu_y)
      br_x  == Br(ts2, mu_x)
      br_y  == Br(ts2, mu_y)
      g_x   == GRange(ul_x, br_x, g.width)
      g_y   == GRange(ul_y, br_y, g.height)
      img_x == ImgRange(ul_x, br_x, g.width)
      img_y == ImgRange(ul_y, br_y, g.height)
  IN IF /\ img_x[1] <= ix /\ ix < img_x[2]
        /\ img_y[1] <= iy /\ iy < img_y[2]
     THEN G(g.sigma, ts2, g_y[1] + (iy - img_y[1]), g_x[1] + (ix - img_x[1]))
     ELSE 0

\* heatmaps[mu_x][mu_y], an image of height x width, in row-major order.
Heatmap(g, mu_x, mu_y) ==
  [n \in 1..(g.height * g.width) |->
     HeatmapAt(g, mu_x, mu_y, (n - 1) \div g.width, (n - 1) % g.width)]

-----------------------------------------------------------------------------
(* Tensors *)

\* A Python None argument, and an instance attribute that was never assigned.
None == [none |-> TRUE]
Absent == [absent |-> TRUE]

\* The sequence s with every element evaluated.
Eager(s) == SubSeq(s, 1, Len(s))

\* A local variable: F evaluated with its parameter bound to the value v.
With(v, F(_)) == F(v)

Numel(shape) == shape[1] * shape[2] * shape[3] * shape[4]
Tensor(shape, data) == [shape |-> shape, data |-> Eager(data)]
Full(shape, v) == Tensor(shape, [n \in 1..Numel(shape) |-> v])

\* t[b, k, i, j]
At(t, b, k, i, j) ==
  t.data[((b * t.shape[2] + k) * t.shape[3] + i) * t.shape[4] + j + 1]

\* An exception raised while a tensor was being computed.
Raise(kind) == [error |-> kind]
IsError(t) == "error" \in DOMAIN t

RECURSIVE SeqSum(_, _)
SeqSum(f, n) == IF n = 0 THEN 0 ELSE f[n] + SeqSum(f, n - 1)

\* The greatest of f[1], ..., f[n].
SeqMax(f, n) ==
  LET vals == {f[m] : m \in 1..n}
  IN CHOOSE v \in vals : \A w \in vals : w <= v

\* x.clip(max=1., min=0.)
Clip(v) == Max(0, Min(Scale, v))

\* The float product of two values.
Mul(a, b) == (a * b) \div Scale

-----------------------------------------------------------------------------
(* utils.keypoint_detection.get_max_preds: the peak decoder *)

\* The lowest index at which row takes its maximum.
ArgMax(row) ==
  CHOOSE n \in 1..Len(row) :
    /\ \A m \in 1..Len(row) : row[m] <= row[n]
    /\ \A m \in 1..(n - 1) : row[m] < row[n]

\* preds.reshape(-1, 2): for each (sample, keypoint) map in row-major order, the
\* (x, y) of its maximum, the map being scanned row by row.
get_max_preds(y) ==
  LET hw == y.shape[3] * y.shape[4]
  IN Eager([n \in 1..(y.shape[1] * y.shape[2]) |->
       LET idx == ArgMax(SubSeq(y.data, (n - 1) * hw + 1, n * hw)) - 1
       IN <<idx % y.shape[4], idx \div y.shape[4]>>])

-----------------------------------------------------------------------------
(* forward of the four generator classes *)

\* A scaling bug: every class divides the coordinates by 4, as the class for
\* the 16 x 16 resolution does.
DivisorFour(cls) == 4

\* The coordinate divisor: preds.astype(np.int), (preds / 4).astype(np.int),
\* (preds / 2).astype(np.int).
Divisor(cls) ==
  CASE cls = "PseudoLabelGenerator"   -> 1
    [] cls = "PseudoLabelGenerator01" -> 4
    [] cls = "PseudoLabelGenerator02" -> 1
    [] cls = "PseudoLabelGenerator03" -> 2

Res01 == 16
Res03 == 32

\* The shape ground_truth is reshaped to: (B, K, H, W) of the input,
\* (B, K, 16, 16), (B, K, 32, 32).
OutShape(cls, yshape) ==
  CASE cls = "PseudoLabelGenerator"   -> yshape
    [] cls = "PseudoLabelGenerator01" -> <<yshape[1], yshape[2], Res01, Res01>>
    [] cls = "PseudoLabelGenerator02" -> yshape
    [] cls = "PseudoLabelGenerator03" -> <<yshape[1], yshape[2], Res03, Res03>>

\* An index bug: the decoded coordinate indexes the bank as it is.
TemplateIndexUnscaled(cls, c) == c

\* (preds / 4).astype(np.int) of one decoded coordinate c >= 0: the division
\* is a float division and astype truncates, which is floor(c / divisor).
TemplateIndex(cls, c) == c \div Divisor(cls)

\* self.heatmaps[x, y] is in range: heatmaps has shape (width, height, height,
\* width).
InBank(g, pred) == pred[1] < g.width /\ pred[2] < g.height

\* The decoded coordinates as integers, divided by the class's divisor.
Preds(cls, y) ==
  With(get_max_preds(y), LAMBDA p :
    [n \in 1..Len(p) |-> <<TemplateIndex(cls, p[n][1]), TemplateIndex(cls, p[n][2])>>])

\* A gather bug: the two coordinates index the bank in the wrong order.
GatherSwapped(g, preds) ==
  LET hw == g.height * g.width
  IN [m \in 1..(Len(preds) * hw) |->
       LET n == (m - 1) \div hw
           r == (m - 1) % hw
       IN HeatmapAt(g, preds[n + 1][2] % g.width, preds[n + 1][1] % g.height,
                    r \div g.width, r % g.width)]

\* self.heatmaps[preds[:, 0], preds[:, 1], :, :]: one bank entry per row of
\* preds, in the order of the rows; the data of a (B*K, height, width) array.
Gather(g, preds) ==
  LET hw == g.height * g.width
  IN [m \in 1..(Len(preds) * hw) |->
       LET n == (m - 1) \div hw
           r == (m - 1) % hw
       IN HeatmapAt(g, preds[n + 1][1], preds[n + 1][2], r \div g.width, r % g.width)]

\* A decoding bug: max_vals is not discarded, every gathered template is
\* scaled by the confidence at its peak.
GroundTruthTimesMaxVals(g, y) ==
  With(Preds(g.cls, y), LAMBDA preds :
    IF \E n \in 1..Len(preds) : ~InBank(g, preds[n])
    THEN Raise("IndexError")
    ELSE IF Len(preds) * g.height * g.width # Numel(OutShape(g.cls, y.shape))
    THEN Raise("ValueError")
    ELSE With(Gather(g, preds), LAMBDA t :
      LET hw  == g.height * g.width
          yhw == y.shape[3] * y.shape[4]
      IN Tensor(OutShape(g.cls, y.shape),
           [m \in 1..Len(t) |->
              LET n == (m - 1) \div hw
              IN Mul(t[m], SeqMax(SubSeq(y.data, n * yhw + 1, (n + 1) * yhw), yhw))])))

\* ground_truth of a generator forward, or the exception the indexing or the
\* reshape raises.
GroundTruth(g, y) ==
  With(Preds(g.cls, y), LAMBDA preds :
    IF \E n \in 1..Len(preds) : ~InBank(g, preds[n])
    THEN Raise("IndexError")
    ELSE IF Len(preds) * g.height * g.width # Numel(OutShape(g.cls, y.shape))
    THEN Raise("ValueError")
    ELSE Tensor(OutShape(g.cls, y.shape), Gather(g, preds)))

\* A suppression bug: the identity is not subtracted, the matrix is all ones.
false_matrixOnes(g) ==
  [k \in 1..g.num_keypoints |-> [k2 \in 1..g.num_keypoints |-> Scale]]

\* self.false_matrix = 1. - np.eye(num_keypoints)
false_matrix(g) ==
  [k \in 1..g.num_keypoints |->
     [k2 \in 1..g.num_keypoints |-> IF k = k2 THEN 0 ELSE Scale]]

\* A suppression bug: the matrix is all ones, the diagonal included.
CrossSuppressionAllOnes(g, gt) ==
  LET K  == gt.shape[2]
      hw == gt.shape[3] * gt.shape[4]
  IN Tensor(gt.shape,
       [m \in 1..Numel(gt.shape) |->
          LET b == (m - 1) \div (K * hw)
              p == (m - 1) % hw
          IN Clip(SeqSum([k \in 1..K |-> gt.data[(b * K + k - 1) * hw + p + 1]], K))])

\* ground_truth.reshape(B, K, -1).transpose((0, 2, 1)).dot(false_matrix)
\*   .clip(max=1., min=0.).transpose((0, 2, 1)).reshape(B, K, H, W)
CrossSuppression(g, gt) ==
  LET K  == gt.shape[2]
      hw == gt.shape[3] * gt.shape[4]
      M  == false_matrix(g)
  IN IF K # g.num_keypoints
     THEN Raise("ValueError")
     ELSE Tensor(gt.shape,
       [m \in 1..Numel(gt.shape) |->
          LET b  == (m - 1) \div (K * hw)
              k2 == ((m - 1) \div hw) % K
              p  == (m - 1) % hw
          IN Clip(SeqSum([k \in 1..K |->
                   Mul(gt.data[(b * K + k - 1) * hw + p + 1], M[k][k2 + 1])], K))])

\* A complement bug: ground_truth is not scaled by 10.
ComplementUnscaled(gt) ==
  Tensor(gt.shape, [m \in 1..Numel(gt.shape) |-> Clip(Scale - gt.data[m])])

\* (ones_like(ground_truth) - ground_truth * 10).clip(max=1., min=0.)
Complement(gt) ==
  Tensor(gt.shape, [m \in 1..Numel(gt.shape) |-> Clip(Scale - gt.data[m] * 10)])

\* ground_false of a generator forward, from its ground_truth.
GroundFalse(g, gt) ==
  IF g.cls \in {"PseudoLabelGenerator", "PseudoLabelGenerator02"}
  THEN CrossSuppression(g, gt)
  ELSE Complement(gt)

\* forward(y) of a generator: the pair it returns, or the exception it raises.
Generate(g, y) ==
  With(GroundTruth(g, y), LAMBDA gt :
    IF IsError(gt) THEN gt
    ELSE With(GroundFalse(g, gt), LAMBDA gf :
           IF IsError(gf) THEN gf
           ELSE [ground_truth |-> gt, ground_false |-> gf]))

\* forward(y) of a generator for a caller that drops the returned ground_false:
\* the ground_truth, or the exception forward raises (the dot product of the
\* cross-suppression raises when y has not num_keypoints channels).
GenerateTruth(g, y) ==
  With(GroundTruth(g, y), LAMBDA gt :
    IF IsError(gt) THEN gt
    ELSE IF /\ g.cls \in {"PseudoLabelGenerator", "PseudoLabelGenerator02"}
            /\ gt.shape[2] # g.num_keypoints
    THEN Raise("ValueError")
    ELSE [ground_truth |-> gt])

-----------------------------------------------------------------------------
(* torch operations used by the RegressionDisparity classes *)

\* The float results that are no finite number.
PosInf == Scale * Scale * 10
NegInf == 0 - PosInf
NaN == PosInf + 1

\* n / d for d > 0, both in units of 1/Scale, rounded to the nearest 1/Scale;
\* computed in two steps of 100 (Scale = 100 * 100) to stay within 32 bits.
Quotient(n, d) ==
  ((n * 100) \div d) * 100 + ((((n * 100) % d) * 100) + d \div 2) \div d

\* a / b in floats; x / 0 is NaN, +Inf or -Inf.
Div(a, b) ==
  IF b = 0 THEN (IF a = 0 THEN NaN ELSE IF a > 0 THEN PosInf ELSE NegInf)
  ELSE IF b > 0 THEN Quotient(a, b)
  ELSE Quotient(0 - a, 0 - b)

\* Broadcasting of two shapes: compatible when, in every dimension, the sizes
\* are equal or one of them is 1.
Broadcastable(s1, s2) ==
  \A d \in 1..4 : s1[d] = s2[d] \/ s1[d] = 1 \/ s2[d] = 1
BroadcastShape(s1, s2) == [d \in 1..4 |-> Max(s1[d], s2[d])]

\* The element of t that position m (1-based, row-major) of a tensor of the
\* broadcast shape sh reads.
BroadcastAt(t, sh, m) ==
  LET j == (m - 1) % sh[4]
      i == ((m - 1) \div sh[4]) % sh[3]
      k == ((m - 1) \div (sh[4] * sh[3])) % sh[2]
      b == (m - 1) \div (sh[4] * sh[3] * sh[2])
  IN At(t, IF t.shape[1] = 1 THEN 0 ELSE b, IF t.shape[2] = 1 THEN 0 ELSE k,
           IF t.shape[3] = 1 THEN 0 ELSE i, IF t.shape[4] = 1 THEN 0 ELSE j)

\* a + c * b elementwise with broadcasting (c = 1: a + b; c = -10: a - b * 10).
AddScaled(a, c, b) ==
  IF IsError(a) THEN a
  ELSE IF IsError(b) THEN b
  ELSE IF ~Broadcastable(a.shape, b.shape) THEN Raise("RuntimeError")
  ELSE LET sh == BroadcastShape(a.shape, b.shape)
       IN Tensor(sh, [m \in 1..Numel(sh) |->
                        BroadcastAt(a, sh, m) + c * BroadcastAt(b, sh, m)])

\* t.clip(max=1., min=0.)
ClipT(t) ==
  IF IsError(t) THEN t
  ELSE Tensor(t.shape, [m \in 1..Numel(t.shape) |-> Clip(t.data[m])])

\* torch.sum(t, dim=1): a (B, H, W) tensor, held here as (B, 1, H, W).
SumChannels(t) ==
  IF IsError(t) THEN t ELSE
  LET hw == t.shape[3] * t.shape[4]
      K  == t.shape[2]
  IN Tensor(<<t.shape[1], 1, t.shape[3], t.shape[4]>>,
       [m \in 1..(t.shape[1] * hw) |->
          LET b == (m - 1) \div hw
              p == (m - 1) % hw
          IN SeqSum([k \in 1..K |-> t.data[(b * K + k - 1) * hw + p + 1]], K)])

RepeatCount == 21

\* t.unsqueeze(1).repeat(1, 21, 1, 1) of a (B, H, W) tensor.
Repeat21(t) ==
  IF IsError(t) THEN t
  ELSE LET hw == t.shape[3] * t.shape[4]
           sh == <<t.shape[1], RepeatCount, t.shape[3], t.shape[4]>>
       IN Tensor(sh, [m \in 1..Numel(sh) |->
                        t.data[((m - 1) \div (RepeatCount * hw)) * hw + ((m - 1) % hw) + 1]])

\* A normalisation bug: each sample is divided by its first element.
NormalizeSamplesByFirst(t, b) ==
  IF IsError(t) THEN t
  ELSE IF b > t.shape[1] THEN Raise("IndexError")
  ELSE LET hw == t.shape[3] * t.shape[4]
       IN Tensor(<<b, 1, t.shape[3], t.shape[4]>>,
            [m \in 1..(b * hw) |-> Div(t.data[m], t.data[((m - 1) \div hw) * hw + 1])])

\* torch.stack([t[k] / torch.max(t[k]) for k in range(b)]) of a (B', H, W) tensor.
NormalizeSamples(t, b) ==
  IF IsError(t) THEN t
  ELSE IF b > t.shape[1] THEN Raise("IndexError")
  ELSE LET hw == t.shape[3] * t.shape[4]
           mx == Eager([k \in 1..b |-> SeqMax(SubSeq(t.data, (k - 1) * hw + 1, k * hw), hw)])
       IN Tensor(<<b, 1, t.shape[3], t.shape[4]>>,
            [m \in 1..(b * hw) |-> Div(t.data[m], mx[(m - 1) \div hw + 1])])

\* torch.stack([torch.stack([t[k][j] / torch.max(t[k][j]) for j in range(c)])
\*              for k in range(b)]), b and c being t's own first two sizes.
NormalizeSlices(t) ==
  IF IsError(t) THEN t
  ELSE LET hw == t.shape[3] * t.shape[4]
           n  == t.shape[1] * t.shape[2]
           mx == Eager([s \in 1..n |-> SeqMax(SubSeq(t.data, (s - 1) * hw + 1, s * hw), hw)])
       IN Tensor(t.shape, [m \in 1..Numel(t.shape) |-> Div(t.data[m], mx[(m - 1) \div hw + 1])])

\* Python truth value of an optional tensor argument: None is false, a tensor of
\* one element is true when the element is nonzero, any other tensor raises.
Truth(t) ==
  IF t = None THEN "false"
  ELSE IF Numel(t.shape) # 1 THEN "RuntimeError"
  ELSE IF t.data[1] # 0 THEN "true" ELSE "false"

-----------------------------------------------------------------------------
(* forward of the RegressionDisparity classes.  Each operator gives the pair   *)
(* (ground_truth, ground_false) the call computes before it assigns the cache, *)
(* or the exception raised on the way, with the number of generator calls made.*)

Failed(e, n) == [error |-> e.error, invoked |-> n]
Computed(gt, gf, n) ==
  IF IsError(gf) THEN Failed(gf, n)
  ELSE [ground_truth |-> gt, ground_false |-> gf, invoked |-> n]

\* A scaling bug: ground_truth is subtracted as it is, not ten times.
Minus10Unscaled(label_p, gt) == ClipT(AddScaled(label_p, -1, gt))

\* (label_p - ground_truth * 10).clip(max=1., min=0.)
Minus10(label_p, gt) == ClipT(AddScaled(label_p, -10, gt))

\* ground_false = ground_false + y_adv2
\* ground_false = (ground_false - ground_truth * 100).clip(max=1., min=0.)
PlusAdv2(gf, y_adv2, gt) == ClipT(AddScaled(AddScaled(gf, 1, y_adv2), -100, gt))

\* The generator called on y, then on label_1, then on label_2: the results up
\* to and including the first that raises.
Generated(g, ys) ==
  With(Eager([i \in 1..Len(ys) |-> GenerateTruth(g, ys[i])]), LAMBDA rs :
    SubSeq(rs, 1, IF \E i \in 1..Len(ys) : IsError(rs[i])
                  THEN CHOOSE i \in 1..Len(ys) :
                         IsError(rs[i]) /\ \A j \in 1..(i - 1) : ~IsError(rs[j])
                  ELSE Len(ys)))

\* The rest of a forward after its generator calls: the exception of the call
\* that raised, or what F computes from the results r.
Labelled(r, F(_)) == IF IsError(r[Len(r)]) THEN Failed(r[Len(r)], Len(r)) ELSE F(r)

RegressionDisparity_forward(g, a) ==
  With(Generate(g, a.y), LAMBDA r :
    IF IsError(r) THEN Failed(r, 1)
    ELSE Computed(r.ground_truth, r.ground_false, 1))

\* label_p of RegressionDisparity2.forward before it is normalised.
RegressionDisparity2_label_p(r) ==
  LET label_p1 == SumChannels(r[1].ground_truth)
      label_p2 == SumChannels(r[2].ground_truth)
      label_p3 == SumChannels(r[3].ground_truth)
  IN AddScaled(AddScaled(label_p2, 1, label_p1), 1, label_p3)

RegressionDisparity2_forward(g, a) ==
  Labelled(Generated(g, <<a.y, a.label_1, a.label_2>>), LAMBDA r :
    LET label_p == NormalizeSamples(RegressionDisparity2_label_p(r), a.y.shape[1])
    IN Computed(r[1].ground_truth,
                Minus10(Repeat21(label_p), r[1].ground_truth), 3))

\* label_p of RegressionDisparity3.forward before it is normalised.
RegressionDisparity3_label_p(r) ==
  LET label_p1 == ClipT(SumChannels(r[1].ground_truth))
      label_p2 == ClipT(SumChannels(r[2].ground_truth))
      label_p3 == ClipT(SumChannels(r[3].ground_truth))
  IN AddScaled(AddScaled(label_p1, 1, label_p2), 1, label_p3)

RegressionDisparity3_forward(g, a) ==
  Labelled(Generated(g, <<a.y, a.label_1, a.label_2>>), LAMBDA r :
    LET label_p == NormalizeSamples(RegressionDisparity3_label_p(r), a.y.shape[1])
    IN Computed(r[1].ground_truth,
                Minus10(Repeat21(label_p), r[1].ground_truth), 3))

RegressionDisparity4_forward(g, a) ==
  Labelled(Generated(g, <<a.y>>), LAMBDA r :
    LET label_p == ClipT(SumChannels(r[1].ground_truth))
    IN Computed(r[1].ground_truth,
                Minus10(Repeat21(label_p), r[1].ground_truth), 1))

RegressionDisparity5_forward(g, a) ==
  Labelled(Generated(g, <<a.y, a.label_1, a.label_2>>), LAMBDA r :
    LET label_p1 == ClipT(SumChannels(r[1].ground_truth))
        label_p2 == ClipT(SumChannels(r[2].ground_truth))
        label_p3 == ClipT(SumChannels(r[3].ground_truth))
        labelx1  == ClipT(AddScaled(label_p2, -1, label_p1))
        labelx2  == ClipT(AddScaled(label_p3, -1, label_p1))
        label_p  == ClipT(AddScaled(AddScaled(label_p1, 1, labelx1), 1, labelx2))
    IN Computed(r[1].ground_truth,
                Minus10(Repeat21(label_p), r[1].ground_truth), 3))

RegressionDisparity6_forward(g, a) ==
  Labelled(Generated(g, <<a.y, a.label_1>>), LAMBDA r :
    LET label_p1 == ClipT(SumChannels(r[1].ground_truth))
        label_p2 == ClipT(SumChannels(r[2].ground_truth))
        labelx1  == ClipT(AddScaled(label_p2, -1, label_p1))
        label_p  == ClipT(AddScaled(label_p1, 1, labelx1))
    IN Computed(r[1].ground_truth,
                Minus10(Repeat21(label_p), r[1].ground_truth), 2))

\* label_p of RegressionDisparity7.forward before it is normalised.
RegressionDisparity7_label_p(r) ==
  LET label_p1 == ClipT(SumChannels(r[1].ground_truth))
      label_p2 == ClipT(SumChannels(r[2].ground_truth))
  IN AddScaled(label_p2, 1, label_p1)

RegressionDisparity7_forward(g, a) ==
  Labelled(Generated(g, <<a.y, a.label_1>>), LAMBDA r :
    LET label_p == NormalizeSamples(RegressionDisparity7_label_p(r), a.y.shape[1])
    IN Computed(r[1].ground_truth,
                Minus10(Repeat21(label_p), r[1].ground_truth), 2))

RegressionDisparity8_forward(g, a) ==
  Labelled(Generated(g, <<a.y, a.label_1, a.label_2>>), LAMBDA r :
    LET gt       == r[1].ground_truth
        label_p1 == ClipT(SumChannels(gt))
        labelx1  == ClipT(SumChannels(ClipT(AddScaled(r[2].ground_truth, -1, gt))))
        labelx2  == ClipT(SumChannels(ClipT(AddScaled(r[3].ground_truth, -1, gt))))
        label_p  == ClipT(AddScaled(AddScaled(label_p1, 1, labelx1), 1, labelx2))
    IN Computed(gt, Minus10(Repeat21(label_p), gt), 3))

RegressionDisparityx1_forward(g, a) ==
  Labelled(Generated(g, <<a.y>>), LAMBDA r :
    Computed(r[1].ground_truth, Complement(r[1].ground_truth), 1))

\* label_p = torch.sum(ground_truth, dim=1) and its repeat are computed and
\* never used.
RegressionDisparityx2_forward(g, a) ==
  Labelled(Generated(g, <<a.y>>), LAMBDA r :
    LET label_p == Repeat21(SumChannels(r[1].ground_truth))
    IN IF IsError(label_p) THEN Failed(label_p, 1)
       ELSE Computed(r[1].ground_truth, Complement(r[1].ground_truth), 1))

RegressionDisparityx3_forward(g, a) ==
  Labelled(Generated(g, <<a.y>>), LAMBDA r :
    Computed(r[1].ground_truth, Complement(r[1].ground_truth), 1))

\* ground_false of RegressionDisparityx4.forward before it is normalised.
RegressionDisparityx4_ground_false(r, a) ==
  LET ground_false1 == Complement(r.ground_truth)
      truth         == Truth(a.y_adv2)
  IN IF truth = "RuntimeError" THEN Raise("RuntimeError")
     ELSE IF truth = "true" THEN AddScaled(ground_false1, 1, a.y_adv2)
     ELSE r.ground_false

RegressionDisparityx4_forward(g, a) ==
  With(Generate(g, a.y), LAMBDA r :
    IF IsError(r) THEN Failed(r, 1)
    ELSE Computed(r.ground_truth,
                  NormalizeSlices(RegressionDisparityx4_ground_false(r, a)), 1))

\* ground_false of RegressionDisparityx5.forward before it is normalised.
RegressionDisparityx5_ground_false(r, a) ==
  IF a.y_adv2 # None
  THEN PlusAdv2(Complement(r.ground_truth), a.y_adv2, r.ground_truth)
  ELSE r.ground_false

RegressionDisparityx5_forward(g, a) ==
  With(Generate(g, a.y), LAMBDA r :
    IF IsError(r) THEN Failed(r, 1)
    ELSE Computed(r.ground_truth,
                  NormalizeSlices(RegressionDisparityx5_ground_false(r, a)), 1))

\* ground_false of RegressionDisparityx6.forward before it is normalised.
RegressionDisparityx6_ground_false(r, a) ==
  LET gt            == r.ground_truth
      label_p       == ClipT(SumChannels(gt))
      ground_false0 == Minus10(Repeat21(label_p), gt)
  IN IF a.y_adv2 # None
     THEN PlusAdv2(ground_false0, a.y_adv2, gt)
     ELSE ground_false0

RegressionDisparityx6_forward(g, a) ==
  Labelled(Generated(g, <<a.y>>), LAMBDA r :
    Computed(r[1].ground_truth,
             NormalizeSlices(RegressionDisparityx6_ground_false(r[1], a)), 1))

\* forward of the class cls: the method the call instance.forward(...) runs.
ForwardOf(cls, g, a) ==
  CASE cls = "RegressionDisparity"   -> RegressionDisparity_forward(g, a)
    [] cls = "RegressionDisparity2"  -> RegressionDisparity2_forward(g, a)
    [] cls = "RegressionDisparity3"  -> RegressionDisparity3_forward(g, a)
    [] cls = "RegressionDisparity4"  -> RegressionDisparity4_forward(g, a)
    [] cls = "RegressionDisparity5"  -> RegressionDisparity5_forward(g, a)
    [] cls = "RegressionDisparity6"  -> RegressionDisparity6_forward(g, a)
    [] cls = "RegressionDisparity7"  -> RegressionDisparity7_forward(g, a)
    [] cls = "RegressionDisparity8"  -> RegressionDisparity8_forward(g, a)
    [] cls = "RegressionDisparityx1" -> RegressionDisparityx1_forward(g, a)
    [] cls = "RegressionDisparityx2" -> RegressionDisparityx2_forward(g, a)
    [] cls = "RegressionDisparityx3" -> RegressionDisparityx3_forward(g, a)
    [] cls = "RegressionDisparityx4" -> RegressionDisparityx4_forward(g, a)
    [] cls = "RegressionDisparityx5" -> RegressionDisparityx5_forward(g, a)
    [] cls = "RegressionDisparityx6" -> RegressionDisparityx6_forward(g, a)

\* A caching bug: ground_false is stored as ground_truth.
AssignTruthFromFalse(r, o) == [r EXCEPT !.ground_truth = o.ground_false]

\* self.ground_truth = ground_truth
AssignTruth(r, o) == [r EXCEPT !.ground_truth = o.ground_truth]

\* A caching bug: ground_false is not assigned.
AssignFalseSkipped(r, o) == r

\* self.ground_false = ground_false
AssignFalse(r, o) == [r EXCEPT !.ground_false = o.ground_false]

\* The value the criterion returns for its three arguments: the criterion is a
\* collaborator handed to the constructor, so its value is left uninterpreted.
criterion(pred, target, weight) ==
  [pred |-> pred, target |-> target, weight |-> weight]

\* A caching bug: once the cache is filled, the criterion gets the cached maps.
ReturnCached(a, ground_truth, ground_false) ==
  IF rd.ground_truth = Absent
  THEN criterion(a.y_adv, IF a.mode = "min" THEN ground_truth ELSE ground_false,
                 a.weight)
  ELSE criterion(a.y_adv, IF a.mode = "min" THEN rd.ground_truth
                          ELSE rd.ground_false, a.weight)

\* A selection bug: the two modes pick each other's target.
ReturnSwapped(a, ground_truth, ground_false) ==
  IF a.mode = "min"
  THEN criterion(a.y_adv, ground_false, a.weight)
  ELSE criterion(a.y_adv, ground_truth, a.weight)

\* if mode == 'min': return self.criterion(y_adv, ground_truth, weight)
\* else: return self.criterion(y_adv, ground_false, weight)
Return(a, ground_truth, ground_false) ==
  IF a.mode = "min"
  THEN criterion(a.y_adv, ground_truth, a.weight)
  ELSE criterion(a.y_adv, ground_false, a.weight)

\* An assertion bug: the mode is not checked.
ModeAny(mode) == TRUE

\* assert mode in ['min', 'max']
ModeOK(mode) == mode \in {"min", "max"}

-----------------------------------------------------------------------------
(* The bank specification: a generator is constructed, entries are read *)

NoProbe == [mu_x |-> -1, mu_y |-> -1, entry |-> << >>]
NoCall == [op |-> "none"]
NoRet == [kind |-> "none"]
NoRd == [cls |-> "none", label_x |-> 0, ground_truth |-> Absent,
         ground_false |-> Absent]
NoEnv == [B |-> 0, p0 |-> 0, stride |-> 0]
NoMem == [bank |-> << >>, args |-> None, maps |-> None, storage |-> None]
NoThreads == << >>
NoNet == [cls |-> "none"]

BankGenerators ==
  [cls : GeneratorClasses, num_keypoints : {1}, height : 1..MaxBankH,
   width : 1..MaxBankW, sigma : 1..MaxSigma]

InitBank ==
  /\ gen \in BankGenerators
  /\ rd = NoRd
  /\ call = NoCall
  /\ ret = NoRet
  /\ invoked = << >>
  /\ env = NoEnv
  /\ probe = NoProbe
  /\ mem = NoMem
  /\ threads = NoThreads
  /\ net = NoNet

\* Read heatmaps[mu_x][mu_y] of the constructed bank.
ReadEntry ==
  \E mu_x \in 0..(gen.width - 1), mu_y \in 0..(gen.height - 1) :
    /\ probe' = [mu_x |-> mu_x, mu_y |-> mu_y, entry |-> Heatmap(gen, mu_x, mu_y)]
    /\ UNCHANGED <<gen, rd, call, ret, invoked, env, mem, threads, net>>

NextBank == ReadEntry

SpecBank == InitBank /\ [][NextBank]_vars

-----------------------------------------------------------------------------
(* Buffers: which array the elements of a numpy array or torch tensor live in *)

\* The generator's own arrays.
BankArrays == {"heatmaps", "false_matrix"}

\* An aliasing bug: the result is a view of its operand.
CopyElided(base) == base

\* .copy(), and every operation that computes its result into a new array
\* (dot, clip, arithmetic, ones_like): the result has a buffer of its own.
Copy(base) == "fresh"

\* x[rows, cols, :, :] with integer arrays rows and cols: a copy, never a view.
IndexArrays(base) == Copy(base)

\* reshape of a contiguous array, transpose, torch.from_numpy, .to(device) on
\* the same device, detach: the result shares the buffer of its operand.
View(base) == base

\* The buffers of the two maps a generator's forward returns:
\* torch.from_numpy(self.heatmaps[...].copy().reshape(...).copy()).to(y.device)
\* and a map computed from ground_truth.
ReturnedStorage ==
  LET ground_truth == Copy(View(Copy(IndexArrays("heatmaps"))))
  IN [ground_truth |-> View(View(ground_truth)),
      ground_false |-> View(View(Copy(View(ground_truth))))]

\* The array handed to get_max_preds, y.detach().cpu().numpy(): a view of the
\* caller's y.
DecodedBuffer == View(View(View("y")))

\* An in-place bug: forward also updates the decoder's array in place.
WrittenBuffersDecoded == {Copy("heatmaps"), DecodedBuffer}

\* The buffers a forward writes into.  Every statement binds its result to an
\* array or tensor of its own (copy, dot, clip, sum, repeat, stack, +, -, *, /);
\* no statement has an in-place operator or an indexed assignment.
WrittenBuffers == {Copy("heatmaps")}

\* A tensor whose buffer has been written over.
Overwritten(t) == Full(t.shape, 0 - Scale)

\* The tensors passed to a forward as they are when it has returned: forward
\* detaches them, reads them and hands them on; a write to a view of one of
\* them lands in the caller's tensor.
InputsAfter(a) ==
  [f \in DOMAIN a \ {"mode"} |->
     IF a[f] # None /\ View(f) \in WrittenBuffers THEN Overwritten(a[f]) ELSE a[f]]

-----------------------------------------------------------------------------
(* The callers' inputs *)

PeakValue == (Scale * 4) \div 5
Background == Scale \div 10

\* A prediction batch with one sharp peak per (sample, keypoint) map: the map
\* numbered n (row-major, from 0) peaks at pixel (p0 + n * stride) mod H*W.
Spike(shape, p0, stride) ==
  LET hw == shape[3] * shape[4]
  IN Tensor(shape, [m \in 1..Numel(shape) |->
       IF (m - 1) % hw = (p0 + ((m - 1) \div hw) * stride) % hw
       THEN PeakValue ELSE Background])

\* A prediction batch whose maps are entries of g's template bank, at the same
\* peaks as Spike.
Templates(g, shape, p0, stride) ==
  LET hw == g.height * g.width
  IN Tensor(shape, [m \in 1..Numel(shape) |->
       LET pos == (p0 + ((m - 1) \div hw) * stride) % hw
           r   == (m - 1) % hw
       IN HeatmapAt(g, pos % g.width, pos \div g.width, r \div g.width, r % g.width)])

\* The batches the caller's network yields: B samples, as many channels as the
\* generator has keypoints, MaxH x MaxW pixels.
BaseShape(g, e) == <<e.B, g.num_keypoints, MaxH, MaxW>>

\* Shapes that differ from the base shape in one respect.
OtherK(g) == IF g.num_keypoints = MaxK THEN 1 ELSE MaxK
ChanShape(g, e) == <<e.B, OtherK(g), MaxH, MaxW>>
GridShape(g, e) == <<e.B, g.num_keypoints, MaxW, MaxH>>
OneShape(g, e) == <<1, g.num_keypoints, MaxH, MaxW>>

Predictions(g, e) ==
  {Spike(BaseShape(g, e), e.p0, e.stride), Full(BaseShape(g, e), 0),
   Spike(ChanShape(g, e), e.p0, e.stride), Spike(GridShape(g, e), e.p0, e.stride)}
  \cup (IF g.height = MaxH /\ g.width = MaxW
        THEN {Templates(g, BaseShape(g, e), e.p0, e.stride)} ELSE {})

\* The output of the adversarial head and an instance weight: the forward
\* methods hand them to the criterion and never read them.
YAdv(y) == Full(y.shape, Scale \div 4)
Weight(y) == Full(<<y.shape[1], y.shape[2], 1, 1>>, Scale \div 2)

Modes == {"min", "max", "mean"}

Args(y, weight, mode, label_1, label_2, y_adv2) ==
  [y |-> y, y_adv |-> YAdv(y), weight |-> weight, mode |-> mode,
   label_1 |-> label_1, label_2 |-> label_2, y_adv2 |-> y_adv2]

\* Auxiliary predictions label_1, label_2: of the base shape with other peaks, or
\* of a shape that differs from it.
Labels(g, e) ==
  {Spike(BaseShape(g, e), e.p0 + 1, e.stride), Spike(OneShape(g, e), e.p0 + 2, e.stride),
   Spike(ChanShape(g, e), e.p0, e.stride), Spike(GridShape(g, e), e.p0, e.stride)}

\* Auxiliary prediction y_adv2: absent, or a constant map of the shape of the
\* generator's output, of one element, or of the prediction's transposed grid.
Adv2s(g, e) ==
  LET out == OutShape(g.cls, BaseShape(g, e))
  IN {None, Full(out, 0 - Scale), Full(out, Scale \div 2),
      Full(<<1, 1, 1, 1>>, 0 - 2 * Scale), Full(<<1, 1, 1, 1>>, Scale \div 2),
      Full(<<1, 1, 1, 1>>, 0),
      Full(<<e.B, g.num_keypoints, MaxW, MaxH>>, Scale \div 2)}

\* The calls made on a RegressionDisparity instance: every prediction in mode
\* min; the base prediction with and without a weight in every mode, the
\* invalid one included; the base prediction with each auxiliary input.
Calls(g, e, labels1, labels2, adv2s) ==
  LET y0 == Spike(BaseShape(g, e), e.p0, e.stride)
      l0 == Spike(BaseShape(g, e), e.p0 + 1, e.stride)
      d1 == IF labels1 = {} THEN None ELSE l0
      d2 == IF labels2 = {} THEN None ELSE l0
  IN {Args(y, None, "min", d1, d2, None) : y \in Predictions(g, e)}
     \cup {Args(y0, w, mode, d1, d2, None) :
        w \in {None, Weight(y0)}, mode \in Modes}
     \cup {Args(y0, None, "max", l1, d2, None) : l1 \in labels1}
     \cup {Args(y0, None, "max", d1, l2, None) : l2 \in labels2}
     \cup {Args(y0, None, "max", d1, d2, v) : v \in adv2s}

-----------------------------------------------------------------------------
(* Construction *)

\* The generator class each RegressionDisparity constructor is annotated with;
\* "none" stands for a generator used on its own.
GeneratorOf(cls) ==
  CASE cls \in {"RegressionDisparityx1", "RegressionDisparityx4"}
         -> {"PseudoLabelGenerator01"}
    [] cls \in {"RegressionDisparityx2", "RegressionDisparityx3"}
         -> {"PseudoLabelGenerator02"}
    [] cls = "RegressionDisparityx5" -> {"PseudoLabelGenerator03"}
    [] cls = "none" -> GeneratorClasses
    [] OTHER -> {"PseudoLabelGenerator"}

DisparityClasses ==
  {"RegressionDisparity", "RegressionDisparity2", "RegressionDisparity3",
   "RegressionDisparity4", "RegressionDisparity5", "RegressionDisparity6",
   "RegressionDisparity7", "RegressionDisparity8", "RegressionDisparityx1",
   "RegressionDisparityx2", "RegressionDisparityx3", "RegressionDisparityx4",
   "RegressionDisparityx5", "RegressionDisparityx6"}

\* The classes whose forward repeats the presence map over 21 channels.
Repeating ==
  {"RegressionDisparity2", "RegressionDisparity3", "RegressionDisparity4",
   "RegressionDisparity5", "RegressionDisparity6", "RegressionDisparity7",
   "RegressionDisparity8", "RegressionDisparityx6"}

\* The classes whose constructor calls reset().
Resetting == {"RegressionDisparity2", "RegressionDisparity3", "RegressionDisparity7"}

\* The bank sizes generators are constructed with: the callers' grid and, for
\* the classes that reshape to a fixed size, that size.
BankSizes(gcls) ==
  {<<MaxH, MaxW>>}
  \cup (IF gcls = "PseudoLabelGenerator01" THEN {<<Res01, Res01>>} ELSE {})
  \cup (IF gcls = "PseudoLabelGenerator03" THEN {<<Res03, Res03>>} ELSE {})

Keypoints(cls) == {1, MaxK} \cup (IF cls \in Repeating THEN {RepeatCount} ELSE {})

\* The peak layouts of the callers' predictions, <<p0, stride>>: every peak at
\* the last pixel, or successive pixels from the first one (from any pixel when
\* the generator is used on its own).
Layouts(cls) ==
  {<<MaxH * MaxW - 1, 0>>}
  \cup {<<p0, 1>> : p0 \in 0..(IF cls = "none" THEN MaxH * MaxW - 1 ELSE 0)}

\* The constructions explored: banks of a fixed resolution hold one keypoint,
\* banks of 21 keypoints have sigma = 1, and both see the first layout only.
Scenarios(cls) ==
  {c \in [gcls : GeneratorOf(cls), sigma : 1..MaxSigma, k : Keypoints(cls),
          size : UNION {BankSizes(gcls) : gcls \in GeneratorOf(cls)},
          l : Layouts(cls)] :
     /\ c.size \in BankSizes(c.gcls)
     /\ c.size # <<MaxH, MaxW>> => c.k = 1 /\ c.l = <<0, 1>>
     /\ c.k = RepeatCount => c.sigma = 1 /\ c.l = <<0, 1>>}

\* A RegressionDisparity instance of class cls with its generator, or (cls =
\* "none") a generator on its own, and the layout of the caller's predictions.
Constructed(cls) ==
  /\ rd = [cls |-> cls,
           label_x |-> IF cls \in Resetting THEN [value |-> 0] ELSE Absent,
           ground_truth |-> Absent, ground_false |-> Absent]
  /\ \E c \in Scenarios(cls) :
       /\ gen = [cls |-> c.gcls, num_keypoints |-> c.k, height |-> c.size[1],
                 width |-> c.size[2], sigma |-> c.sigma]
       /\ env = [B |-> MaxB, p0 |-> c.l[1], stride |-> c.l[2]]
  /\ call = NoCall
  /\ ret = NoRet
  /\ invoked = << >>
  /\ probe = NoProbe
  /\ mem = NoMem
  /\ threads = NoThreads
  /\ net = NoNet

InitGen == Constructed("none")

Init == \E cls \in DisparityClasses : Constructed(cls)

-----------------------------------------------------------------------------
(* The forward calls *)

\* An exception no caller handles ends the run.
Running == ret.kind # "raise"

Invocations(n) == [i \in 1..n |-> "pseudo_label_generator"]

\* The rest of a RegressionDisparity forward once the pair is computed or an
\* exception is raised: the cache is assigned and the criterion's value returned.
Finish(a, o) ==
  /\ call' = a
  /\ IF "error" \in DOMAIN o
     THEN /\ rd' = rd
          /\ ret' = [kind |-> "raise", error |-> o.error]
          /\ invoked' = Invocations(o.invoked)
     ELSE /\ rd' = AssignFalse(AssignTruth(rd, o), o)
          /\ ret' = [kind |-> "value",
                     value |-> Return(a, o.ground_truth, o.ground_false)]
          /\ invoked' = Invocations(o.invoked) \o <<"criterion">>
  /\ mem' = [mem EXCEPT !.args = InputsAfter(a)]
  /\ UNCHANGED <<gen, env, probe, threads, net>>

\* The first statement of every forward: the assertion on mode.
Asserted(a, o) ==
  IF ModeOK(a.mode) THEN o ELSE [error |-> "AssertionError", invoked |-> 0]

\* A generator's forward called on its own.
Returned(y, o) ==
  /\ call' = [y |-> y]
  /\ ret' = IF IsError(o) THEN [kind |-> "raise", error |-> o.error]
            ELSE [kind |-> "value", value |-> o]
  /\ invoked' = << >>
  /\ mem' = [mem EXCEPT !.args = InputsAfter([y |-> y]),
                        !.maps = IF IsError(o) THEN None ELSE o,
                        !.storage = IF IsError(o) THEN None ELSE ReturnedStorage]
  /\ UNCHANGED <<gen, rd, env, probe, threads, net>>

\* The caller assigns an element of a map that a generator's forward returned:
\* the write lands in the map's buffer, the bank's own array when the map is a
\* view of it.
WriteReturned ==
  /\ rd.cls = "none"
  /\ Running
  /\ ret.kind = "value"
  /\ mem.maps = ret.value
  /\ \E f \in {"ground_truth", "ground_false"} :
       mem' = [mem EXCEPT
                 !.maps[f].data[1] = 0 - Scale,
                 !.bank = IF mem.storage[f] \in BankArrays
                          THEN Append(@, [array |-> mem.storage[f], through |-> f])
                          ELSE @]
  /\ UNCHANGED <<gen, rd, call, ret, invoked, env, probe, threads, net>>

Forward_PseudoLabelGenerator ==
  /\ rd.cls = "none"
  /\ Running
  /\ gen.cls = "PseudoLabelGenerator"
  /\ \E y \in Predictions(gen, env) : Returned(y, Generate(gen, y))

Forward_PseudoLabelGenerator01 ==
  /\ rd.cls = "none"
  /\ Running
  /\ gen.cls = "PseudoLabelGenerator01"
  /\ \E y \in Predictions(gen, env) : Returned(y, Generate(gen, y))

Forward_PseudoLabelGenerator02 ==
  /\ rd.cls = "none"
  /\ Running
  /\ gen.cls = "PseudoLabelGenerator02"
  /\ \E y \in Predictions(gen, env) : Returned(y, Generate(gen, y))

Forward_PseudoLabelGenerator03 ==
  /\ rd.cls = "none"
  /\ Running
  /\ gen.cls = "PseudoLabelGenerator03"
  /\ \E y \in Predictions(gen, env) : Returned(y, Generate(gen, y))

Forward_RegressionDisparity ==
  /\ rd.cls = "RegressionDisparity"
  /\ Running
  /\ \E a \in Calls(gen, env, {}, {}, {}) :
       Finish(a, Asserted(a, RegressionDisparity_forward(gen, a)))

Forward_RegressionDisparity2 ==
  /\ rd.cls = "RegressionDisparity2"
  /\ Running
  /\ \E a \in Calls(gen, env, Labels(gen, env), Labels(gen, env), {}) :
       Finish(a, Asserted(a, RegressionDisparity2_forward(gen, a)))

Forward_RegressionDisparity3 ==
  /\ rd.cls = "RegressionDisparity3"
  /\ Running
  /\ \E a \in Calls(gen, env, Labels(gen, env), Labels(gen, env), {}) :
       Finish(a, Asserted(a, RegressionDisparity3_forward(gen, a)))

Forward_RegressionDisparity4 ==
  /\ rd.cls = "RegressionDisparity4"
  /\ Running
  /\ \E a \in Calls(gen, env, {}, {}, {}) :
       Finish(a, Asserted(a, RegressionDisparity4_forward(gen, a)))

Forward_RegressionDisparity5 ==
  /\ rd.cls = "RegressionDisparity5"
  /\ Running
  /\ \E a \in Calls(gen, env, Labels(gen, env), Labels(gen, env), {}) :
       Finish(a, Asserted(a, RegressionDisparity5_forward(gen, a)))

Forward_RegressionDisparity6 ==
  /\ rd.cls = "RegressionDisparity6"
  /\ Running
  /\ \E a \in Calls(gen, env, Labels(gen, env), {}, {}) :
       Finish(a, Asserted(a, RegressionDisparity6_forward(gen, a)))

Forward_RegressionDisparity7 ==
  /\ rd.cls = "RegressionDisparity7"
  /\ Running
  /\ \E a \in Calls(gen, env, Labels(gen, env), {}, {}) :
       Finish(a, Asserted(a, RegressionDisparity7_forward(gen, a)))

Forward_RegressionDisparity8 ==
  /\ rd.cls = "RegressionDisparity8"
  /\ Running
  /\ \E a \in Calls(gen, env, Labels(gen, env), Labels(gen, env), {}) :
       Finish(a, Asserted(a, RegressionDisparity8_forward(gen, a)))

Forward_RegressionDisparityx1 ==
  /\ rd.cls = "RegressionDisparityx1"
  /\ Running
  /\ \E a \in Calls(gen, env, {}, {}, {}) :
       Finish(a, Asserted(a, RegressionDisparityx1_forward(gen, a)))

Forward_RegressionDisparityx2 ==
  /\ rd.cls = "RegressionDisparityx2"
  /\ Running
  /\ \E a \in Calls(gen, env, {}, {}, {}) :
       Finish(a, Asserted(a, RegressionDisparityx2_forward(gen, a)))

Forward_RegressionDisparityx3 ==
  /\ rd.cls = "RegressionDisparityx3"
  /\ Running
  /\ \E a \in Calls(gen, env, {}, {}, {}) :
       Finish(a, Asserted(a, RegressionDisparityx3_forward(gen, a)))

Forward_RegressionDisparityx4 ==
  /\ rd.cls = "RegressionDisparityx4"
  /\ Running
  /\ \E a \in Calls(gen, env, {}, {}, Adv2s(gen, env)) :
       Finish(a, Asserted(a, RegressionDisparityx4_forward(gen, a)))

Forward_RegressionDisparityx5 ==
  /\ rd.cls = "RegressionDisparityx5"
  /\ Running
  /\ \E a \in Calls(gen, env, {}, {}, Adv2s(gen, env)) :
       Finish(a, Asserted(a, RegressionDisparityx5_forward(gen, a)))

Forward_RegressionDisparityx6 ==
  /\ rd.cls = "RegressionDisparityx6"
  /\ Running
  /\ \E a \in Calls(gen, env, {}, {}, Adv2s(gen, env)) :
       Finish(a, Asserted(a, RegressionDisparityx6_forward(gen, a)))

NextGen ==
  \/ Forward_PseudoLabelGenerator
  \/ Forward_PseudoLabelGenerator01
  \/ Forward_PseudoLabelGenerator02
  \/ Forward_PseudoLabelGenerator03
  \/ WriteReturned

SpecGen == InitGen /\ [][NextGen]_vars

Next ==
  \/ Forward_RegressionDisparity
  \/ Forward_RegressionDisparity2
  \/ Forward_RegressionDisparity3
  \/ Forward_RegressionDisparity4
  \/ Forward_RegressionDisparity5
  \/ Forward_RegressionDisparity6
  \/ Forward_RegressionDisparity7
  \/ Forward_RegressionDisparity8
  \/ Forward_RegressionDisparityx1
  \/ Forward_RegressionDisparityx2
  \/ Forward_RegressionDisparityx3
  \/ Forward_RegressionDisparityx4
  \/ Forward_RegressionDisparityx5
  \/ Forward_RegressionDisparityx6

Spec == Init /\ [][Next]_vars

\* Generators used on their own and through the RegressionDisparity classes.
InitAll == InitGen \/ Init

NextAll == NextGen \/ Next

SpecAll == InitAll /\ [][NextAll]_vars

-----------------------------------------------------------------------------
(* Concurrent callers: forward calls of several threads on one instance.  A    *)
(* thread can be preempted between any two statements of forward; what it has  *)
(* computed so far is in its own local variables.                              *)

Threads == {"t1", "t2"}

\* The classes whose forward takes label_1, and label_2.
TakesLabel1 ==
  {"RegressionDisparity2", "RegressionDisparity3", "RegressionDisparity5",
   "RegressionDisparity6", "RegressionDisparity7", "RegressionDisparity8"}
TakesLabel2 ==
  {"RegressionDisparity2", "RegressionDisparity3", "RegressionDisparity5",
   "RegressionDisparity8"}

\* The calls the threads make: the base prediction in mode max and an all-zero
\* prediction in mode min, both among Calls.
ConcurrentCalls(cls, g, e) ==
  LET l0 == Spike(BaseShape(g, e), e.p0 + 1, e.stride)
      d1 == IF cls \in TakesLabel1 THEN l0 ELSE None
      d2 == IF cls \in TakesLabel2 THEN l0 ELSE None
  IN {Args(Spike(BaseShape(g, e), e.p0, e.stride), None, "max", d1, d2, None),
      Args(Full(BaseShape(g, e), 0), None, "min", d1, d2, None)}

\* Thread t calls forward and runs it up to the assignments of the cache: the
\* assertion, the generator calls and the computation of the pair, all on
\* local variables.
Enter(t) ==
  /\ rd.cls # "none"
  /\ t \notin DOMAIN threads
  /\ \E a \in ConcurrentCalls(rd.cls, gen, env) :
       With(Asserted(a, ForwardOf(rd.cls, gen, a)), LAMBDA o :
         threads' = threads @@
           (t :> [pc |-> IF "error" \in DOMAIN o THEN "raised" ELSE "computed",
                  args |-> a, out |-> o]))
  /\ UNCHANGED <<gen, rd, call, ret, invoked, env, probe, mem, net>>

\* self.ground_truth = ground_truth
StoreTruth(t) ==
  /\ t \in DOMAIN threads
  /\ threads[t].pc = "computed"
  /\ rd' = AssignTruth(rd, threads[t].out)
  /\ threads' = [threads EXCEPT ![t].pc = "truth_stored"]
  /\ UNCHANGED <<gen, call, ret, invoked, env, probe, mem, net>>

\* self.ground_false = ground_false
StoreFalse(t) ==
  /\ t \in DOMAIN threads
  /\ threads[t].pc = "truth_stored"
  /\ rd' = AssignFalse(rd, threads[t].out)
  /\ threads' = [threads EXCEPT ![t].pc = "stored"]
  /\ UNCHANGED <<gen, call, ret, invoked, env, probe, mem, net>>

\* return self.criterion(y_adv, ground_truth or ground_false, weight)
Leave(t) ==
  /\ t \in DOMAIN threads
  /\ threads[t].pc = "stored"
  /\ threads' = [threads EXCEPT ![t].pc = "returned"]
  /\ call' = threads[t].args
  /\ ret' = [kind |-> "value",
             value |-> Return(threads[t].args, threads[t].out.ground_truth,
                              threads[t].out.ground_false)]
  /\ invoked' = Invocations(threads[t].out.invoked) \o <<"criterion">>
  /\ mem' = [mem EXCEPT !.args = InputsAfter(threads[t].args)]
  /\ UNCHANGED <<gen, rd, env, probe, net>>

NextConc ==
  \E t \in Threads : Enter(t) \/ StoreTruth(t) \/ StoreFalse(t) \/ Leave(t)

SpecConc == Init /\ [][NextConc]_vars

-----------------------------------------------------------------------------
(* reset(), updata() and forward() of RegressionDisparity2, 3 and 7 *)

\* The values the caller passes to updata.
LabelValues == {Scale \div 2, 3 * Scale}

\* reset(): self.label_x = 0.
reset(r) == [r EXCEPT !.label_x = [value |-> 0]]

\* updata(label_x): self.label_x = label_x
updata(r, label_x) == [r EXCEPT !.label_x = [value |-> label_x]]

\* A dependence bug: forward adds label_x to ground_false.
ForwardWithLabelXAdded(r, g, a) ==
  With(ForwardOf(r.cls, g, a), LAMBDA o :
    IF "error" \in DOMAIN o THEN o
    ELSE [o EXCEPT !.ground_false =
            AddScaled(@, 1, Full(<<1, 1, 1, 1>>, r.label_x.value))])

\* forward of an instance r of these classes: label_x = self.label_x is read
\* into a local variable that no later statement uses.
ForwardWithLabelX(r, g, a) ==
  LET label_x == r.label_x
  IN ForwardOf(r.cls, g, a)

InitLabel == \E cls \in Resetting : Constructed(cls)

\* loss.reset()
Reset ==
  /\ Running
  /\ rd' = reset(rd)
  /\ call' = [op |-> "reset"]
  /\ ret' = [kind |-> "value", value |-> None]
  /\ invoked' = << >>
  /\ UNCHANGED <<gen, env, probe, mem, threads, net>>

\* loss.updata(v)
Updata ==
  /\ Running
  /\ \E v \in LabelValues :
       /\ rd' = updata(rd, v)
       /\ call' = [op |-> "updata", label_x |-> v]
  /\ ret' = [kind |-> "value", value |-> None]
  /\ invoked' = << >>
  /\ UNCHANGED <<gen, env, probe, mem, threads, net>>

\* loss(y, y_adv, label_1, label_2, mode=...)
ForwardLabel ==
  /\ Running
  /\ \E a \in ConcurrentCalls(rd.cls, gen, env) :
       Finish(a, Asserted(a, ForwardWithLabelX(rd, gen, a)))

NextLabel == Reset \/ Updata \/ ForwardLabel

SpecLabel == InitLabel /\ [][NextLabel]_vars

-----------------------------------------------------------------------------
(* The classes whose forward takes auxiliary predictions *)

\* The classes whose forward takes y_adv2.
TakesYAdv2 == {"RegressionDisparityx5", "RegressionDisparityx6"}

WithAuxiliary == TakesLabel1 \cup TakesYAdv2

\* The calls made on an instance of these classes, all with one prediction y
\* and its y_adv: in mode min with and without a weight and with each auxiliary
\* input, in mode max with each label_1 or y_adv2.
AuxiliaryCalls(cls, g, e) ==
  LET y0 == Spike(BaseShape(g, e), e.p0, e.stride)
      l0 == Spike(BaseShape(g, e), e.p0 + 1, e.stride)
      labels1 == IF cls \in TakesLabel1 THEN Labels(g, e) ELSE {None}
      labels2 == IF cls \in TakesLabel2
                 THEN {l0, Spike(OneShape(g, e), e.p0 + 2, e.stride)} ELSE {None}
      adv2s == IF cls \in TakesYAdv2 THEN Adv2s(g, e) ELSE {None}
  IN {Args(y0, w, "min", l1, l2, v) :
        w \in {None, Weight(y0)}, l1 \in labels1, l2 \in labels2, v \in adv2s}
     \cup {Args(y0, None, "max", l1, IF cls \in TakesLabel2 THEN l0 ELSE None, v) :
        l1 \in labels1, v \in adv2s}

InitAux == \E cls \in WithAuxiliary : Constructed(cls)

\* loss(y, y_adv, label_1, label_2, weight, mode) or
\* loss(y, y_adv, y_adv2, weight, mode)
ForwardAux ==
  /\ Running
  /\ \E a \in AuxiliaryCalls(rd.cls, gen, env) :
       Finish(a, Asserted(a, ForwardOf(rd.cls, gen, a)))

NextAux == ForwardAux

SpecAux == InitAux /\ [][NextAux]_vars

-----------------------------------------------------------------------------
(* Cross-suppression: predictions that differ in the peaks of one keypoint *)

\* How far a keypoint's peak is moved, in pixels of the row-major scan.
Moves == {0, 1, MaxW}

\* The classes whose forward derives ground_false by cross-suppression.
CrossSuppressing == {"PseudoLabelGenerator", "PseudoLabelGenerator02"}

\* The prediction Spike(shape, p0, stride) with the peaks of channel k moved
\* by d pixels.
MovedSpike(shape, p0, stride, k, d) ==
  LET hw == shape[3] * shape[4]
  IN Tensor(shape, [m \in 1..Numel(shape) |->
       LET n == (m - 1) \div hw
       IN IF (m - 1) % hw
              = (p0 + n * stride + (IF n % shape[2] = k THEN d ELSE 0)) % hw
          THEN PeakValue ELSE Background])

InitPeak == InitGen /\ gen.cls \in CrossSuppressing

\* generator(y)
ForwardMoved ==
  /\ Running
  /\ \E k \in 0..(gen.num_keypoints - 1), d \in Moves :
       With(MovedSpike(BaseShape(gen, env), env.p0, env.stride, k, d), LAMBDA y :
         Returned(y, Generate(gen, y)))

NextPeak == ForwardMoved

SpecPeak == InitPeak /\ [][NextPeak]_vars

-----------------------------------------------------------------------------
(* RegressionDisparity4 on 21 keypoints whose peaks lie together or apart *)

\* A RegressionDisparity4 instance with a generator of 21 keypoints, and
\* predictions whose peaks all lie on one pixel (stride 0) or on successive
\* pixels (stride 1).
InitSparse ==
  /\ rd = [cls |-> "RegressionDisparity4", label_x |-> Absent,
           ground_truth |-> Absent, ground_false |-> Absent]
  /\ \E sigma \in 1..MaxSigma, p0 \in 0..(MaxH * MaxW - 1), stride \in {0, 1} :
       /\ gen = [cls |-> "PseudoLabelGenerator", num_keypoints |-> RepeatCount,
                 height |-> MaxH, width |-> MaxW, sigma |-> sigma]
       /\ env = [B |-> MaxB, p0 |-> p0, stride |-> stride]
  /\ call = NoCall
  /\ ret = NoRet
  /\ invoked = << >>
  /\ probe = NoProbe
  /\ mem = NoMem
  /\ threads = NoThreads
  /\ net = NoNet

NextSparse == Forward_RegressionDisparity4

SpecSparse == InitSparse /\ [][NextSparse]_vars

-----------------------------------------------------------------------------
(* The PoseResNet classes: forward(), step() and the gradient layer.  The    *)
(* backbone, the upsampling and the heads are collaborators; a forward is   *)
(* modelled by the local variables it returns and its call of the gradient  *)
(* layer.                                                                   *)

MaxForwards == 4
MaxSteps == 3

PoseResNets ==
  {"PoseResNet", "PoseResNet2", "PoseResNet3", "PoseResNet001",
   "PoseResNet002", "PoseResNet003", "PoseResNet004", "PoseResNet30",
   "PoseResNet6", "PoseResNet7", "PoseResNet8", "PoseResNet01",
   "PoseResNet02", "PoseResNet03", "PoseResNet04", "PoseResNet05",
   "PoseResNet06", "PoseResNet07", "PoseResNet08", "PoseResNet09",
   "PoseResNet10", "PoseResNet11", "PoseResNet12", "PoseResNetx1",
   "PoseResNetx2", "PoseResNetx3", "PoseResNetx4", "PoseResNetx5",
   "PoseResNetx6", "PoseResNetx7", "PoseResNetx8", "PoseResNetx9",
   "PoseResNetx10"}

\* WarmStartGradientLayer(alpha=1.0, lo=0.0, hi=0.1, max_iters=1000,
\* auto_step=...): the schedule starts at iteration 0.
WarmStartGradientLayer(auto_step) == [auto_step |-> auto_step, iter_num |-> 0]

\* WarmStartGradientLayer.step(): the schedule advances by one iteration.
GradientLayer_step(gl) == [gl EXCEPT !.iter_num = @ + 1]

\* WarmStartGradientLayer.forward(input): the layer advances its own schedule
\* when it was made with auto_step=True.
GradientLayer_forward(gl) == IF gl.auto_step THEN GradientLayer_step(gl) ELSE gl

\* The local variables forward returns while self.training is set.
TrainingOutputs(cls) ==
  CASE cls \in {"PoseResNet", "PoseResNet2", "PoseResNet001", "PoseResNet003"}
         -> <<"y", "y_adv", "y_adv2">>
    [] cls \in {"PoseResNet3", "PoseResNet002", "PoseResNet004",
              "PoseResNet30", "PoseResNetx5", "PoseResNetx6",
              "PoseResNetx7", "PoseResNetx8"}
         -> <<"y", "y_adv", "y_adv2", "f">>
    [] cls \in {"PoseResNet6", "PoseResNet7", "PoseResNet8", "PoseResNet01",
              "PoseResNet02", "PoseResNet03", "PoseResNet04",
              "PoseResNet05", "PoseResNet06", "PoseResNet07",
              "PoseResNet08", "PoseResNet11", "PoseResNet12"}
         -> <<"y", "y_adv", "y_adv2", "fea2">>
    [] cls \in {"PoseResNet09", "PoseResNet10"}
         -> <<"y", "y_adv", "y_adv2", "fea1">>
    [] cls \in {"PoseResNetx1"}
         -> <<"y", "y_adv", "refine_out", "f">>
    [] cls \in {"PoseResNetx2"}
         -> <<"y", "y_adv", "refine_out">>
    [] cls \in {"PoseResNetx3", "PoseResNetx4"}
         -> <<"y", "y_adv", "f">>
    [] cls \in {"PoseResNetx9", "PoseResNetx10"}
         -> <<"y", "y_adv", "y_adv2", "y_adv3", "f">>

\* What forward returns: the classes without a test of self.training return
\* the same tuple in both modes, the others a single tensor in evaluation mode
\* (PoseResNet30 the same tuple in both branches).
Outputs(cls, training) ==
  IF training THEN [kind |-> "tuple", items |-> TrainingOutputs(cls)]
  ELSE IF cls \in {"PoseResNet", "PoseResNet3", "PoseResNet002",
                   "PoseResNet004", "PoseResNet05", "PoseResNet07",
                   "PoseResNet09", "PoseResNet11"}
  THEN [kind |-> "tensor", items |-> <<"y_adv2">>]
  ELSE IF cls \in {"PoseResNet6", "PoseResNet7", "PoseResNet01",
                   "PoseResNet03", "PoseResNetx1", "PoseResNetx3",
                   "PoseResNetx5", "PoseResNetx7", "PoseResNetx9"}
  THEN [kind |-> "tensor", items |-> <<"y">>]
  ELSE [kind |-> "tuple", items |-> TrainingOutputs(cls)]

\* The computation behind the local variables y and y_adv: the head applied
\* and the local it is applied to (f is the upsampled feature map, f_adv the
\* gradient layer's output, fea2 a feature map that head_adv2 returns).
Local(cls, name) ==
  CASE name = "y" ->
         [head |-> "head",
          input |-> IF cls \in {"PoseResNet09", "PoseResNet10", "PoseResNet11",
                                "PoseResNet12"} THEN "fea2" ELSE "f"]
    [] name = "y_adv" ->
         [head |-> "head_adv",
          input |-> IF cls \in {"PoseResNetx5", "PoseResNetx6"} THEN "f"
                    ELSE "f_adv"]
    [] OTHER -> [head |-> "other", input |-> "other"]

\* A step bug: step() advances the gradient layer twice.
PoseResNet_stepTwice(n) ==
  [n EXCEPT !.gl_layer = GradientLayer_step(GradientLayer_step(@)),
            !.steps = @ + 1]

\* step(): self.gl_layer.step()
PoseResNet_step(n) ==
  [n EXCEPT !.gl_layer = GradientLayer_step(@), !.steps = @ + 1]

\* forward(x): one call of self.gl_layer, then the return of the mode.
PoseResNet_forward(n) ==
  [n EXCEPT !.gl_layer = GradientLayer_forward(@),
            !.forwards = @ + 1,
            !.out = Outputs(n.cls, n.training)]

NoOut == [kind |-> "none", items |-> << >>]

\* No generator is involved.
NoGen == [cls |-> "none", num_keypoints |-> 0, height |-> 0, width |-> 0,
          sigma |-> 0]

\* A model of either class, in training mode as torch.nn.Module constructs it,
\* with the default gradient layer (gl=None) or one the caller made.
InitNet ==
  /\ \E cls \in PoseResNets, gl \in {"default", "auto_step", "manual"} :
       net = [cls |-> cls, training |-> TRUE, gl |-> gl,
              gl_layer |-> WarmStartGradientLayer(gl = "auto_step"),
              forwards |-> 0, steps |-> 0, out |-> NoOut]
  /\ gen = NoGen
  /\ rd = NoRd
  /\ env = NoEnv
  /\ call = NoCall
  /\ ret = NoRet
  /\ invoked = << >>
  /\ probe = NoProbe
  /\ mem = NoMem
  /\ threads = NoThreads

\* outputs = model(x)
NetForward ==
  /\ net.forwards < MaxForwards
  /\ net' = PoseResNet_forward(net)
  /\ UNCHANGED <<gen, rd, call, ret, invoked, env, probe, mem, threads>>

\* model.step()
NetStep ==
  /\ net.steps < MaxSteps
  /\ net' = PoseResNet_step(net)
  /\ UNCHANGED <<gen, rd, call, ret, invoked, env, probe, mem, threads>>

\* model.train() and model.eval() of torch.nn.Module
NetMode ==
  /\ \E training \in BOOLEAN :
       /\ training # net.training
       /\ net' = [net EXCEPT !.training = training]
  /\ UNCHANGED <<gen, rd, call, ret, invoked, env, probe, mem, threads>>

NextNet == NetForward \/ NetStep \/ NetMode

SpecNet == InitNet /\ [][NextNet]_vars

-----------------------------------------------------------------------------
(* The bank lookup of generators built with their default sizes, at every     *)
(* decoded coordinate of a prediction of the default resolution.              *)

Resolution == 64

\* The default height and width of each constructor.
DefaultSize(cls) ==
  CASE cls = "PseudoLabelGenerator"   -> Resolution
    [] cls = "PseudoLabelGenerator01" -> Res01
    [] cls = "PseudoLabelGenerator02" -> Resolution
    [] cls = "PseudoLabelGenerator03" -> Res03

InitIndex ==
  /\ \E cls \in GeneratorClasses, k \in {1, MaxK}, sigma \in 1..MaxSigma :
       gen = [cls |-> cls, num_keypoints |-> k, height |-> DefaultSize(cls),
              width |-> DefaultSize(cls), sigma |-> sigma]
  /\ rd = NoRd
  /\ env = NoEnv
  /\ call = NoCall
  /\ ret = NoRet
  /\ invoked = << >>
  /\ probe = NoProbe
  /\ mem = NoMem
  /\ threads = NoThreads
  /\ net = NoNet

\* forward decodes a peak at (x, y), rescales it and reads the bank there.
Lookup ==
  /\ call = NoCall
  /\ \E x \in 0..(Resolution - 1), y \in 0..(Resolution - 1) :
       LET pred == <<TemplateIndex(gen.cls, x), TemplateIndex(gen.cls, y)>>
       IN /\ call' = [op |-> "lookup", x |-> x, y |-> y]
          /\ ret' = IF InBank(gen, pred) THEN [kind |-> "value", value |-> pred]
                    ELSE [kind |-> "raise", error |-> "IndexError"]
  /\ UNCHANGED <<gen, rd, invoked, env, probe, mem, threads, net>>

NextIndex == Lookup

SpecIndex == InitIndex /\ [][NextIndex]_vars

-----------------------------------------------------------------------------
(* The presence map of RegressionDisparity6 at one pixel, in float32.  The    *)
(* bank is a float32 array and every tensor derived from it is float32: each  *)
(* sum and difference is rounded to 24 significant bits, ties to even.  A     *)
(* float32 value is held as a multiple of 2^-29, which is exact for values    *)
(* between 2^-6 and 2.                                                        *)

\* 1.0, and the number of significant bits of a float32.
F32One == 536870912
F32Bits == 24

\* The squared distances (dx^2 + dy^2 <= 32) between a pixel and a decoded peak.
Distances == {0, 1, 2, 4, 5, 8, 9, 10, 13, 16, 17, 18, 20, 25, 26, 29, 32}

\* g = np.exp(- ((x - x0) ** 2 + (y - y0) ** 2) / (2 * sigma ** 2)) for sigma = 2,
\* stored in the float32 bank: the float32 nearest to exp(-d2 / 8).
G32(d2) ==
  CASE d2 = 0 -> 536870912
    [] d2 = 1 -> 473786912
    [] d2 = 2 -> 418115488
    [] d2 = 4 -> 325628672
    [] d2 = 5 -> 287366304
    [] d2 = 8 -> 197503776
    [] d2 = 9 -> 174296464
    [] d2 = 10 -> 153816096
    [] d2 = 13 -> 105716152
    [] d2 = 16 -> 72657576
    [] d2 = 17 -> 64120088
    [] d2 = 18 -> 56585776
    [] d2 = 20 -> 44069048
    [] d2 = 25 -> 23588462
    [] d2 = 26 -> 20816744
    [] d2 = 29 -> 14307125
    [] d2 = 32 -> 9833134

\* The float32 nearest to the exact value n, |n| < 2: n keeps its 24 leading
\* bits, rounded to nearest, ties to the even mantissa.
Round32(n) ==
  LET a == IF n < 0 THEN 0 - n ELSE n
      s == CHOOSE s \in 0..6 :
             /\ a < 2 ^ (F32Bits + s)
             /\ s > 0 => a >= 2 ^ (F32Bits + s - 1)
      q == a \div (2 ^ s)
      r == a % (2 ^ s)
      up == s > 0 /\ (2 * r > 2 ^ s \/ (2 * r = 2 ^ s /\ q % 2 = 1))
      v == (IF up THEN q + 1 ELSE q) * (2 ^ s)
  IN IF n < 0 THEN 0 - v ELSE v

\* a + b and a - b of float32 tensors, at one element.
Add32(a, b) == Round32(a + b)
Sub32(a, b) == Round32(a - b)

\* x.clip(max=1., min=0.) at one element.
Clip32(x) == Max(0, Min(F32One, x))

\* label_p of RegressionDisparity6.forward at one pixel for a generator of one
\* keypoint: the sums over dim 1 are the two ground-truth values at the pixel.
\* sum is label_p1 + labelx1 before the outer clip.
RegressionDisparity6_label_p(gt, gt1) ==
  LET label_p1 == Clip32(gt)
      label_p2 == Clip32(gt1)
      labelx1  == Clip32(Sub32(label_p2, label_p1))
      label_p  == Clip32(Add32(label_p1, labelx1))
  IN [label_p1 |-> label_p1, label_p2 |-> label_p2,
      sum |-> Add32(label_p1, labelx1), label_p |-> label_p]

\* A RegressionDisparity6 instance with a generator of one keypoint and
\* sigma = 2; the peaks of y and of label_1 lie at squared distances d1 and d2
\* from the pixel that is followed.
InitFloat ==
  /\ rd = [cls |-> "RegressionDisparity6", label_x |-> Absent,
           ground_truth |-> Absent, ground_false |-> Absent]
  /\ gen = [cls |-> "PseudoLabelGenerator", num_keypoints |-> 1,
            height |-> Resolution, width |-> Resolution, sigma |-> 2]
  /\ \E d1 \in Distances, d2 \in Distances : env = [d1 |-> d1, d2 |-> d2]
  /\ call = NoCall
  /\ ret = NoRet
  /\ invoked = << >>
  /\ probe = NoProbe
  /\ mem = NoMem
  /\ threads = NoThreads
  /\ net = NoNet

\* The statements of forward that compute label_p, at the pixel followed.
PresenceAtPixel ==
  /\ call = NoCall
  /\ call' = [op |-> "label_p", y |-> env.d1, label_1 |-> env.d2]
  /\ ret' = [kind |-> "value",
             value |-> RegressionDisparity6_label_p(G32(env.d1), G32(env.d2))]
  /\ UNCHANGED <<gen, rd, invoked, env, probe, mem, threads, net>>

NextFloat == PresenceAtPixel

SpecFloat == InitFloat /\ [][NextFloat]_vars

-----------------------------------------------------------------------------
(* Properties of the template bank, under SpecBank *)

Abs(n) == IF n >= 0 THEN n ELSE -n

Probed == probe # NoProbe

\* The value read at pixel (row iy, column ix) of the probed entry.
ProbeAt(iy, ix) == probe.entry[iy * gen.width + ix + 1]

\* C3: in every bank, the entry at (mu_x, mu_y) is exactly 1 at pixel (row mu_y,
\* column mu_x) and exactly 0 at every pixel farther than truncate (half of
\* TmpSize2) from (mu_x, mu_y) along either axis.
C3_PeakOneFarZero ==
  Probed =>
    /\ ProbeAt(probe.mu_y, probe.mu_x) = Scale
    /\ \A iy \in 0..(gen.height - 1), ix \in 0..(gen.width - 1) :
         (\/ 2 * Abs(ix - probe.mu_x) > TmpSize2(gen.cls, gen.sigma)
          \/ 2 * Abs(iy - probe.mu_y) > TmpSize2(gen.cls, gen.sigma))
           => ProbeAt(iy, ix) = 0

\* C4: in the bank of PseudoLabelGenerator, the entry at (mu_x, mu_y) holds at
\* pixel (ix, iy) the Gaussian value of the offset (ix - mu_x, iy - mu_y) when
\* both offsets are at most 3 sigma in size, and zero otherwise: clipping at the
\* boundary neither shifts nor rescales the part of the patch that remains.
C4_OffsetOnly ==
  (Probed /\ gen.cls = "PseudoLabelGenerator") =>
    \A iy \in 0..(gen.height - 1), ix \in 0..(gen.width - 1) :
      ProbeAt(iy, ix) =
        IF /\ Abs(ix - probe.mu_x) <= 3 * gen.sigma
           /\ Abs(iy - probe.mu_y) <= 3 * gen.sigma
        THEN Gauss(gen.sigma, (ix - probe.mu_x) * (ix - probe.mu_x)
                            + (iy - probe.mu_y) * (iy - probe.mu_y))
        ELSE 0

\* A corner entry whose patch is clipped on two sides: the peak is in the
\* corner, its right-hand neighbour holds the Gaussian of offset 1, and the far
\* end of the row is beyond the window.
C4_Witness ==
  /\ Probed
  /\ gen.cls = "PseudoLabelGenerator"
  /\ gen.sigma = 1
  /\ gen.width = MaxBankW
  /\ gen.height = MaxBankH
  /\ probe.mu_x = 0
  /\ probe.mu_y = gen.height - 1
  /\ Ul(TmpSize2(gen.cls, gen.sigma), probe.mu_x) < 0
  /\ Br(TmpSize2(gen.cls, gen.sigma), probe.mu_y) > gen.height
  /\ ProbeAt(probe.mu_y, 0) = Scale
  /\ ProbeAt(probe.mu_y, 1) = Gauss(1, 1)
  /\ ProbeAt(probe.mu_y, gen.width - 1) = 0

-----------------------------------------------------------------------------
(* Properties of the generators' forward, under SpecGen *)

\* A generator's forward has returned a pair.
Paired == rd.cls = "none" /\ ret.kind = "value"

\* The map of sample b, channel k of tensor t, both counted from 0.
MapOf(t, b, k) ==
  SubSeq(t.data, (b * t.shape[2] + k) * t.shape[3] * t.shape[4] + 1,
                 (b * t.shape[2] + k + 1) * t.shape[3] * t.shape[4])

\* The decoded peak of the map of sample b, channel k of y.
PeakOf(y, b, k) == get_max_preds(y)[b * y.shape[2] + k + 1]

\* C5: PseudoLabelGenerator.forward returns, for every sample b and keypoint k,
\* ground_truth[b, k] equal to the bank entry at the decoded peak of y[b, k]:
\* the maps are neither permuted nor mixed.
C5_GatherByPeak ==
  (Paired /\ gen.cls = "PseudoLabelGenerator") =>
    /\ ret.value.ground_truth.shape = call.y.shape
    /\ \A b \in 0..(call.y.shape[1] - 1), k \in 0..(call.y.shape[2] - 1) :
         MapOf(ret.value.ground_truth, b, k)
           = Heatmap(gen, PeakOf(call.y, b, k)[1], PeakOf(call.y, b, k)[2])

\* A batch of several samples and keypoints whose maps peak at different
\* pixels, one of them off the diagonal, and get different entries.
C5_Witness ==
  /\ Paired
  /\ gen.cls = "PseudoLabelGenerator"
  /\ call.y.shape[1] >= 2
  /\ call.y.shape[2] >= 2
  /\ PeakOf(call.y, 0, 1) # PeakOf(call.y, 1, 0)
  /\ PeakOf(call.y, 0, 1)[1] # PeakOf(call.y, 0, 1)[2]
  /\ MapOf(ret.value.ground_truth, 0, 1) # MapOf(ret.value.ground_truth, 1, 0)
  /\ MapOf(ret.value.ground_truth, 0, 1) # MapOf(ret.value.ground_truth, 0, 0)

\* The pixel at which the map numbered n of the caller's batch peaks.
PeakPixel(n) == (env.p0 + n * env.stride) % (gen.height * gen.width)

\* The call's input is a batch of entries of the generator's own bank.
FedTemplates ==
  /\ call # NoCall
  /\ gen.height = MaxH
  /\ gen.width = MaxW
  /\ call.y = Templates(gen, BaseShape(gen, env), env.p0, env.stride)

\* C6: the decoded peak of the bank entry at (mu_x, mu_y) is (mu_x, mu_y), and
\* PseudoLabelGenerator.forward on a batch of bank entries returns that batch
\* as ground_truth.
C6_RoundTrip ==
  (gen.cls = "PseudoLabelGenerator" /\ rd.cls = "none" /\ FedTemplates) =>
    /\ \A b \in 0..(call.y.shape[1] - 1), k \in 0..(call.y.shape[2] - 1) :
         PeakOf(call.y, b, k)
           = <<PeakPixel(b * call.y.shape[2] + k) % gen.width,
               PeakPixel(b * call.y.shape[2] + k) \div gen.width>>
    /\ ret.kind = "value"
    /\ ret.value.ground_truth = call.y

\* A batch of entries for peaks in both rows of the grid, the last of them at
\* the bottom right corner, has come back as ground_truth.
C6_Witness ==
  /\ gen.cls = "PseudoLabelGenerator"
  /\ rd.cls = "none"
  /\ FedTemplates
  /\ ret.kind = "value"
  /\ call.y.shape[1] * call.y.shape[2] >= 4
  /\ env.stride = 1
  /\ PeakPixel(call.y.shape[1] * call.y.shape[2] - 1) = MaxH * MaxW - 1
  /\ PeakOf(call.y, 0, 0)[2] = 0
  /\ ret.value.ground_truth = call.y

\* The sum of ground_truth[b, k, p] over the channels k other than k2.
OthersSum(gt, b, k2, p) ==
  SeqSum([k \in 1..gt.shape[2] |->
            IF k - 1 = k2 THEN 0 ELSE MapOf(gt, b, k - 1)[p]], gt.shape[2])

\* C7: cross-suppression (PseudoLabelGenerator, PseudoLabelGenerator02):
\* ground_false[b, k2, p] = min(1, sum over k # k2 of ground_truth[b, k, p]); so
\* where some channel k has ground_truth 1, ground_false is 1 in every other
\* channel.
C7_CrossSuppression ==
  (Paired /\ gen.cls \in {"PseudoLabelGenerator", "PseudoLabelGenerator02"}) =>
    LET gt == ret.value.ground_truth
        gf == ret.value.ground_false
    IN /\ gf.shape = gt.shape
       /\ \A b \in 0..(gt.shape[1] - 1), k2 \in 0..(gt.shape[2] - 1),
             p \in 1..(gt.shape[3] * gt.shape[4]) :
            /\ MapOf(gf, b, k2)[p] = Min(Scale, OthersSum(gt, b, k2, p))
            /\ \A k \in 0..(gt.shape[2] - 1) :
                 (k # k2 /\ MapOf(gt, b, k)[p] = Scale) => MapOf(gf, b, k2)[p] = Scale

\* Three channels with neighbouring peaks: at the peak of the middle channel its
\* own ground_false is the clipped sum of the two others, each below 1, and the
\* two others are suppressed to exactly 1.
C7_Witness ==
  /\ Paired
  /\ gen.cls = "PseudoLabelGenerator02"
  /\ ret.value.ground_truth.shape[2] = 3
  /\ \E p \in 1..(gen.height * gen.width) :
       /\ MapOf(ret.value.ground_truth, 0, 1)[p] = Scale
       /\ MapOf(ret.value.ground_truth, 0, 0)[p] < Scale
       /\ MapOf(ret.value.ground_truth, 0, 2)[p] < Scale
       /\ OthersSum(ret.value.ground_truth, 0, 1, p) > Scale
       /\ MapOf(ret.value.ground_false, 0, 1)[p] = Scale
       /\ MapOf(ret.value.ground_false, 0, 0)[p] = Scale
       /\ MapOf(ret.value.ground_false, 0, 2)[p] = Scale
  /\ \E p \in 1..(gen.height * gen.width) :
       /\ MapOf(ret.value.ground_false, 0, 0)[p] > 0
       /\ MapOf(ret.value.ground_false, 0, 0)[p] < Scale

\* C8: for every generator class and every input batch, ground_truth and
\* ground_false both have the shape of the input batch.
C8_SameShape ==
  Paired =>
    /\ ret.value.ground_truth.shape = call.y.shape
    /\ ret.value.ground_false.shape = call.y.shape

-----------------------------------------------------------------------------
(* Properties of the RegressionDisparity classes, under Spec and SpecAll *)

\* A RegressionDisparity forward has returned the criterion's value.
Succeeded == rd.cls # "none" /\ ret.kind = "value"

\* C1: in every RegressionDisparity variant, forward with mode 'min' returns
\* criterion(y_adv, ground_truth, weight) and with mode 'max' returns
\* criterion(y_adv, ground_false, weight), for the pair computed in that call
\* (the generator's ground_truth for y; the pair the call leaves in the cache)
\* and the caller's weight, None when omitted.
C1_CriterionOnPair ==
  Succeeded =>
    /\ call.mode \in {"min", "max"}
    /\ rd.ground_truth = GroundTruth(gen, call.y)
    /\ call.mode = "min" =>
         ret.value = [pred |-> call.y_adv, target |-> rd.ground_truth,
                      weight |-> call.weight]
    /\ call.mode = "max" =>
         ret.value = [pred |-> call.y_adv, target |-> rd.ground_false,
                      weight |-> call.weight]
    /\ invoked[Len(invoked)] = "criterion"

\* The last variant has returned in mode max with a weight, the two maps of the
\* pair being different.
C1_Witness ==
  /\ Succeeded
  /\ rd.cls = "RegressionDisparityx6"
  /\ call.mode = "max"
  /\ call.weight # None
  /\ rd.ground_truth # rd.ground_false
  /\ ret.value.target = rd.ground_false
  /\ ret.value.weight = Weight(call.y)

\* C2: in every RegressionDisparity variant, a forward whose mode is neither
\* 'min' nor 'max' fails before the generator or the criterion is invoked and
\* leaves the cached ground_truth and ground_false as they were.
C2_ModeFailsFast ==
  [][(rd.cls # "none" /\ call'.mode \notin {"min", "max"}) =>
       /\ ret'.kind = "raise"
       /\ ret'.error = "AssertionError"
       /\ invoked' = << >>
       /\ rd' = rd]_vars

\* A call with another mode has failed on an instance whose cache an earlier
\* call had filled.
C2_Witness ==
  /\ rd.cls # "none"
  /\ call # NoCall
  /\ call.mode = "mean"
  /\ ret.kind = "raise"
  /\ ret.error = "AssertionError"
  /\ invoked = << >>
  /\ rd.ground_truth # Absent
  /\ rd.ground_false # Absent

\* Every value of the tensor t lies in [0, 1].
InUnitRange(t) == \A m \in 1..Len(t.data) : 0 <= t.data[m] /\ t.data[m] <= Scale

\* C9: every value of the ground_truth and of the ground_false that a
\* RegressionDisparity variant caches lies in [0, 1], the variants that add
\* y_adv2 included.
C9_UnitRange ==
  (rd.cls # "none" /\ rd.ground_truth # Absent) =>
    InUnitRange(rd.ground_truth) /\ InUnitRange(rd.ground_false)

\* Where ground_truth is at least 0.1, ground_false is 0.
Exclusive(gt, gf) ==
  /\ Len(gf.data) = Len(gt.data)
  /\ \A m \in 1..Len(gt.data) : gt.data[m] >= Scale \div 10 => gf.data[m] = 0

\* C10: under the complement rule (PseudoLabelGenerator01, PseudoLabelGenerator03,
\* RegressionDisparityx1, x2, x3), ground_false is exactly 0 wherever
\* ground_truth >= 0.1.
C10_ComplementExclusive ==
  /\ (Paired /\ gen.cls \in {"PseudoLabelGenerator01", "PseudoLabelGenerator03"})
       => Exclusive(ret.value.ground_truth, ret.value.ground_false)
  /\ (/\ rd.cls \in {"RegressionDisparityx1", "RegressionDisparityx2",
                      "RegressionDisparityx3"}
      /\ rd.ground_truth # Absent)
       => Exclusive(rd.ground_truth, rd.ground_false)

\* RegressionDisparityx1 has cached a pair in which a value of ground_truth
\* between 0.1 and 1 meets a ground_false of 0, and a smaller positive value
\* meets a ground_false strictly between 0 and 1.
C10_Witness ==
  /\ rd.cls = "RegressionDisparityx1"
  /\ rd.ground_truth # Absent
  /\ \E m \in 1..Len(rd.ground_truth.data) :
       /\ rd.ground_truth.data[m] >= Scale \div 10
       /\ rd.ground_truth.data[m] < Scale \div 2
       /\ rd.ground_false.data[m] = 0
  /\ \E m \in 1..Len(rd.ground_truth.data) :
       /\ rd.ground_truth.data[m] > 0
       /\ rd.ground_false.data[m] > 0
       /\ rd.ground_false.data[m] < Scale

\* The map of sample b, channel k of t is zero everywhere.
ZeroSlice(t, b, k) == \A p \in 1..(t.shape[3] * t.shape[4]) : MapOf(t, b, k)[p] = 0

\* The ground_false the most recent call of RegressionDisparityx4, x5 or x6 has
\* before its slices are divided by their maxima, from the generator's result r.
Unnormalised(r) ==
  CASE rd.cls = "RegressionDisparityx4" -> RegressionDisparityx4_ground_false(r, call)
    [] rd.cls = "RegressionDisparityx5" -> RegressionDisparityx5_ground_false(r, call)
    [] rd.cls = "RegressionDisparityx6" -> RegressionDisparityx6_ground_false(r, call)

\* C11: in RegressionDisparityx4, x5 and x6, when a (sample, channel) slice of
\* ground_false is zero everywhere before the division by the slice's maximum,
\* the call returns and the slice of the cached ground_false is zero everywhere:
\* the division neither raises nor yields NaN or Inf.
C11_ZeroSliceStaysZero ==
  (/\ rd.cls \in {"RegressionDisparityx4", "RegressionDisparityx5",
                   "RegressionDisparityx6"}
   /\ call # NoCall
   /\ call.mode \in {"min", "max"}) =>
    LET r   == Generate(gen, call.y)
        pre == Unnormalised(r)
    IN (~IsError(r) /\ ~IsError(pre)) =>
         \A b \in 0..(pre.shape[1] - 1), k \in 0..(pre.shape[2] - 1) :
           ZeroSlice(pre, b, k) =>
             ret.kind = "value" /\ ZeroSlice(rd.ground_false, b, k)

\* The pair the forward of the instance's class computes for the arguments of
\* the most recent call, from the bank and these arguments alone.
PairOfCall == ForwardOf(rd.cls, gen, call)

\* C12: after every successful forward, in mode 'min' as in mode 'max' and
\* whatever calls came before, the cached ground_truth and ground_false are the
\* pair that this call computed; in mode 'max' the cached ground_false is the
\* target the criterion received.
C12_CacheIsLastPair ==
  Succeeded =>
    /\ rd.ground_truth = PairOfCall.ground_truth
    /\ rd.ground_false = PairOfCall.ground_false
    /\ call.mode = "max" => ret.value.target = rd.ground_false

\* A call in mode 'min' has returned: the criterion received ground_truth, and
\* the cache holds the call's ground_false as well, a different map.
C12_Witness ==
  /\ Succeeded
  /\ call.mode = "min"
  /\ call.y = Full(BaseShape(gen, env), 0)
  /\ ret.value.target = rd.ground_truth
  /\ rd.ground_false = PairOfCall.ground_false
  /\ rd.ground_false # rd.ground_truth

\* C13: the value a successful forward returns is the criterion's value for
\* y_adv, the map that the call's own arguments determine (ground_truth in mode
\* 'min', ground_false in mode 'max') and weight: it is a function of the
\* arguments and the bank alone, whatever the cache held when the call began.
C13_ReturnFromArguments ==
  Succeeded =>
    ret.value = criterion(call.y_adv,
                          IF call.mode = "min" THEN PairOfCall.ground_truth
                          ELSE PairOfCall.ground_false,
                          call.weight)

\* A call in mode 'max' with a weight has returned on a RegressionDisparity5
\* instance, the value being that of the call's own ground_false.
C13_Witness ==
  /\ Succeeded
  /\ rd.cls = "RegressionDisparity5"
  /\ call.mode = "max"
  /\ call.weight # None
  /\ ret.value.target = PairOfCall.ground_false
  /\ ret.value.target # PairOfCall.ground_truth

-----------------------------------------------------------------------------
(* Frame properties, under SpecAll *)

\* C14: after any number of forward calls of a generator or of a
\* RegressionDisparity variant, and of writes by the caller to the maps it got
\* back, no entry of heatmaps or false_matrix has been written since the
\* constructor; the returned ground_truth and ground_false have buffers of their
\* own, neither being a view of the bank.
C14_BankImmutable ==
  /\ mem.bank = << >>
  /\ mem.maps # None =>
       /\ mem.storage.ground_truth \notin BankArrays
       /\ mem.storage.ground_false \notin BankArrays

\* The caller has overwritten the first element of the ground_truth a
\* PseudoLabelGenerator returned, which had come from the bank entry at the
\* decoded peak; that entry still holds the constructor's value and no write
\* has reached the bank.
C14_Witness ==
  /\ Paired
  /\ gen.cls = "PseudoLabelGenerator"
  /\ mem.maps # None
  /\ mem.maps.ground_truth.data[1] = 0 - Scale
  /\ ret.value.ground_truth.data[1]
       = HeatmapAt(gen, PeakOf(call.y, 0, 0)[1], PeakOf(call.y, 0, 0)[2], 0, 0)
  /\ ret.value.ground_truth.data[1] > 0
  /\ mem.bank = << >>

-----------------------------------------------------------------------------
(* Concurrent callers, under SpecConc *)

\* Both threads have called forward and both calls have returned.
BothReturned ==
  /\ DOMAIN threads = Threads
  /\ \A t \in Threads : threads[t].pc = "returned"

\* C15: when two forward calls have run concurrently on one instance and both
\* have returned, the cached ground_truth and ground_false are together the pair
\* that one of the two calls computed.
C15_LastWriteWins ==
  BothReturned =>
    \E t \in Threads :
      /\ rd.ground_truth = threads[t].out.ground_truth
      /\ rd.ground_false = threads[t].out.ground_false

-----------------------------------------------------------------------------
(* The presence map of RegressionDisparity2 to 8 and x6, under Spec *)

\* The most recent call is a valid one on a class that repeats the presence map:
\* mode is 'min' or 'max', y has as many channels as the generator has keypoints
\* and the grid of the bank, the auxiliary predictions passed have y's shape and
\* y_adv2 is not passed.
WellFormed ==
  /\ rd.cls \in Repeating
  /\ call # NoCall
  /\ ModeOK(call.mode)
  /\ call.y.shape = BaseShape(gen, env)
  /\ call.label_1 # None => call.label_1.shape = call.y.shape
  /\ call.label_2 # None => call.label_2.shape = call.y.shape
  /\ call.y_adv2 = None

\* C16: in RegressionDisparity2, 3, 4, 5, 6, 7, 8 and x6 the presence map is
\* repeated over as many channels as y has, whatever that number K >= 1 is: a
\* valid call returns, and the cached ground_false has the shape (B, K, H, W)
\* of the cached ground_truth.
C16_BroadcastToK ==
  WellFormed =>
    /\ ret.kind = "value"
    /\ rd.ground_truth.shape = call.y.shape
    /\ rd.ground_false.shape = rd.ground_truth.shape

\* The generator's results for the predictions the most recent call passed: y,
\* then label_1 and label_2 where the class takes them.
MapsOfCall ==
  Generated(gen, <<call.y>>
                 \o (IF rd.cls \in TakesLabel1 THEN <<call.label_1>> ELSE << >>)
                 \o (IF rd.cls \in TakesLabel2 THEN <<call.label_2>> ELSE << >>))

\* The presence map of the class cls when every sum over the channels is clipped
\* before the class's own rule combines the maps of y, label_1 and label_2.
PresenceClipped(cls, r) ==
  LET gt == r[1].ground_truth
      p1 == ClipT(SumChannels(gt))
      p2 == ClipT(SumChannels(r[2].ground_truth))
      p3 == ClipT(SumChannels(r[3].ground_truth))
  IN CASE cls = "RegressionDisparity2" -> AddScaled(AddScaled(p2, 1, p1), 1, p3)
       [] cls = "RegressionDisparity3" -> AddScaled(AddScaled(p1, 1, p2), 1, p3)
       [] cls = "RegressionDisparity5" ->
            ClipT(AddScaled(AddScaled(p1, 1, ClipT(AddScaled(p2, -1, p1))), 1,
                            ClipT(AddScaled(p3, -1, p1))))
       [] cls = "RegressionDisparity6" ->
            ClipT(AddScaled(p1, 1, ClipT(AddScaled(p2, -1, p1))))
       [] cls = "RegressionDisparity7" -> AddScaled(p2, 1, p1)
       [] cls = "RegressionDisparity8" ->
            ClipT(AddScaled(AddScaled(p1, 1,
                    ClipT(SumChannels(ClipT(AddScaled(r[2].ground_truth, -1, gt))))), 1,
                    ClipT(SumChannels(ClipT(AddScaled(r[3].ground_truth, -1, gt))))))
       [] OTHER -> p1

\* The classes whose forward divides maps by their maxima.
Normalising ==
  {"RegressionDisparity2", "RegressionDisparity3", "RegressionDisparity7",
   "RegressionDisparityx6"}

\* ground_false computed in the order sum, clip, repeat over the channels,
\* subtract 10 * ground_truth, clip and, for a class that normalises, division
\* of each (sample, channel) slice by its maximum.
InOrder(cls, r) ==
  LET gf == Minus10(Repeat21(PresenceClipped(cls, r)), r[1].ground_truth)
  IN IF cls \in Normalising THEN NormalizeSlices(gf) ELSE gf

\* C17: in RegressionDisparity2, 3, 4, 5, 6, 7, 8 and x6 the cached ground_false
\* of a valid call that returned is the result of the steps in this order: sum
\* over the channels, clip, repeat over the channels, subtract 10 *
\* ground_truth, clip, and last (where the class normalises) division of each
\* (sample, channel) slice by its own maximum.
C17_StepOrder ==
  (WellFormed /\ ret.kind = "value") =>
    rd.ground_false = InOrder(rd.cls, MapsOfCall)

-----------------------------------------------------------------------------
(* Auxiliary predictions, under Spec *)

\* The most recent call passed a label_1 or label_2 whose shape is not y's.
AuxMismatch ==
  \/ call.label_1.shape # call.y.shape
  \/ rd.cls \in TakesLabel2 /\ call.label_2.shape # call.y.shape

\* C18: in RegressionDisparity2, 3, 5, 6, 7 and 8 a forward call whose label_1
\* or label_2 differs from y in batch size, number of channels or spatial size
\* raises; it never returns a loss.
C18_AuxShapeChecked ==
  (/\ rd.cls \in TakesLabel1
   /\ call # NoCall
   /\ ModeOK(call.mode)
   /\ AuxMismatch) =>
    ret.kind = "raise"

-----------------------------------------------------------------------------
(* Resolution of the bank, under SpecGen *)

\* C19: a generator whose bank does not fit the predictions' resolution is
\* rejected by its constructor, so every forward of a constructed generator on
\* a prediction of the callers' resolution returns: neither the bank lookup nor
\* the reshape raises.
C19_MismatchRejected ==
  (/\ rd.cls = "none"
   /\ call # NoCall
   /\ call.y.shape = BaseShape(gen, env)) =>
    ret.kind = "value"

-----------------------------------------------------------------------------
(* The callers' tensors, under SpecAll *)

\* The tensors the most recent call was passed, as they were when it began.
InputsBefore == [f \in DOMAIN call \ {"mode"} |-> call[f]]

-----------------------------------------------------------------------------
(* The PoseResNet classes, under SpecNet *)

\* C21: in every PoseResNet class with the default gradient layer, the
\* layer's schedule has advanced exactly once per step() call made, whatever
\* the number of forward() calls, and each step() advances it by exactly one.
C21_OneStepPerIteration ==
  (net.cls # "none" /\ net.gl = "default") =>
    net.gl_layer.iter_num = net.steps

\* Two step() calls and more forward() calls than that have been made on a
\* model with the default layer: the schedule is at iteration 2.
C21_Witness ==
  /\ net.cls # "none"
  /\ net.gl = "default"
  /\ net.steps = 2
  /\ net.forwards = 3
  /\ net.gl_layer.iter_num = 2

\* C22: PoseResNet.forward returns, in training mode as in evaluation mode, the
\* tuple of exactly two outputs (outputs, outputs_adv): the main head applied
\* to the upsampled features and the adversarial head applied to the gradient
\* layer's output.
C22_TwoOutputs ==
  (net.cls = "PoseResNet" /\ net.forwards > 0) =>
    /\ net.out.kind = "tuple"
    /\ Len(net.out.items) = 2
    /\ Local(net.cls, net.out.items[1]) = [head |-> "head", input |-> "f"]
    /\ Local(net.cls, net.out.items[2]) = [head |-> "head_adv", input |-> "f_adv"]

-----------------------------------------------------------------------------
(* The bank lookup, under SpecIndex *)

-----------------------------------------------------------------------------
(* The per-sample normalisation of RegressionDisparity2, 3 and 7, under Spec *)

\* label_p of the most recent call before it is normalised.
LabelPOfCall ==
  CASE rd.cls = "RegressionDisparity2" -> RegressionDisparity2_label_p(MapsOfCall)
    [] rd.cls = "RegressionDisparity3" -> RegressionDisparity3_label_p(MapsOfCall)
    [] rd.cls = "RegressionDisparity7" -> RegressionDisparity7_label_p(MapsOfCall)

\* The most recent call on a RegressionDisparity2, 3 or 7 instance got its
\* ground-truth maps from every generator call and summed them.
Summed ==
  /\ rd.cls \in Resetting
  /\ call # NoCall
  /\ ModeOK(call.mode)
  /\ ~IsError(MapsOfCall[Len(MapsOfCall)])
  /\ ~IsError(LabelPOfCall)

\* The elements of sample k (from 0) of a (B, 1, H, W) tensor.
SampleOf(t, k) ==
  SubSeq(t.data, k * t.shape[3] * t.shape[4] + 1, (k + 1) * t.shape[3] * t.shape[4])

\* C24: in RegressionDisparity2, 3 and 7 the maximum of every sample of the
\* summed presence map is at least 1, so the division by it is no division by
\* zero, and every sample of the normalised presence map has its values in
\* [0, 1] and its maximum equal to 1.
C24_DivisorAtLeastOne ==
  Summed =>
    LET hw     == call.y.shape[3] * call.y.shape[4]
        normed == NormalizeSamples(LabelPOfCall, call.y.shape[1])
    IN /\ ~IsError(normed)
       /\ \A k \in 0..(call.y.shape[1] - 1) :
            /\ SeqMax(SampleOf(LabelPOfCall, k), hw) >= Scale
            /\ SeqMax(SampleOf(normed, k), hw) = Scale
            /\ \A p \in 1..hw : SampleOf(normed, k)[p] \in 0..Scale

\* A RegressionDisparity2 call has returned whose summed presence map exceeds 1
\* in sample 0 and is below that maximum elsewhere: the division changed it.
C24_Witness ==
  /\ Summed
  /\ rd.cls = "RegressionDisparity2"
  /\ ret.kind = "value"
  /\ SeqMax(SampleOf(LabelPOfCall, 0), call.y.shape[3] * call.y.shape[4]) > Scale
  /\ \E p \in 1..(call.y.shape[3] * call.y.shape[4]) :
       /\ SampleOf(LabelPOfCall, 0)[p] > 0
       /\ SampleOf(NormalizeSamples(LabelPOfCall, call.y.shape[1]), 0)[p]
            < SampleOf(LabelPOfCall, 0)[p]

-----------------------------------------------------------------------------
(* label_x of RegressionDisparity2, 3 and 7, under SpecLabel *)

\* The most recent call on the instance was a forward call.
WasForward(c) == "op" \notin DOMAIN c

\* After reset() label_x is 0, after updata(v) it is v; a forward that has
\* returned gave the criterion's value for the pair that the bank and its own
\* arguments determine, and cached that pair.
LabelXApart(c, r, v) ==
  /\ c = [op |-> "reset"] => r.label_x = [value |-> 0]
  /\ (~WasForward(c) /\ c.op = "updata") => r.label_x = [value |-> c.label_x]
  /\ (WasForward(c) /\ v.kind = "value") =>
       With(ForwardOf(r.cls, gen, c), LAMBDA o :
         /\ r.ground_truth = o.ground_truth
         /\ r.ground_false = o.ground_false
         /\ v.value = criterion(c.y_adv,
                                IF c.mode = "min" THEN o.ground_truth
                                ELSE o.ground_false,
                                c.weight))

\* C25: in RegressionDisparity2, 3 and 7, reset() sets label_x to 0, updata(v)
\* sets it to v and both leave the cached pair alone; forward leaves label_x as
\* it is, and whatever reset and updata calls came before, it returns the value
\* and caches the pair that its arguments determine.
C25_LabelXIgnored ==
  [][/\ LabelXApart(call', rd', ret')
     /\ WasForward(call') => rd'.label_x = rd.label_x
     /\ ~WasForward(call') =>
          /\ rd'.ground_truth = rd.ground_truth
          /\ rd'.ground_false = rd.ground_false]_vars

\* A forward has returned on an instance whose label_x an updata call had set
\* to 3.0, with the pair of its arguments cached.
C25_Witness ==
  /\ rd.cls = "RegressionDisparity3"
  /\ rd.label_x = [value |-> 3 * Scale]
  /\ WasForward(call)
  /\ ret.kind = "value"
  /\ rd.ground_false = ForwardOf(rd.cls, gen, call).ground_false

-----------------------------------------------------------------------------
(* Auxiliary predictions, under SpecAux *)

\* Two calls with the same y, y_adv, weight and mode.
SameButAuxiliary(c, d) ==
  /\ c # NoCall
  /\ c.y = d.y /\ c.y_adv = d.y_adv /\ c.weight = d.weight /\ c.mode = d.mode

\* C26: in the variants with auxiliary inputs (label_1, label_2, y_adv2), two
\* calls that return and differ only in their auxiliary predictions cache the
\* same ground_truth and, in mode min, return the same loss.
C26_AuxiliaryOnlyFalse ==
  [][(SameButAuxiliary(call, call') /\ ret.kind = "value" /\ ret'.kind = "value")
       => /\ rd'.ground_truth = rd.ground_truth
          /\ call'.mode = "min" => ret'.value = ret.value]_vars

\* A call in mode min has returned whose label_1 is not the base auxiliary
\* prediction, and its cached ground_false is not the one the base auxiliary
\* prediction gives.
C26_Witness ==
  /\ Succeeded
  /\ rd.cls = "RegressionDisparity5"
  /\ call.mode = "min"
  /\ With(Spike(BaseShape(gen, env), env.p0 + 1, env.stride), LAMBDA l0 :
       /\ call.label_1 # l0
       /\ call.label_2 = l0
       /\ With(ForwardOf(rd.cls, gen, [call EXCEPT !.label_1 = l0]), LAMBDA o :
            /\ "error" \notin DOMAIN o
            /\ o.ground_false # rd.ground_false
            /\ o.ground_truth = rd.ground_truth))

-----------------------------------------------------------------------------
(* The generator's output and the decoded peaks, under SpecGen *)

\* Two predictions of one shape whose decoded peaks agree map by map.
SamePeaks(y1, y2) ==
  y1.shape = y2.shape /\ get_max_preds(y1) = get_max_preds(y2)

\* C27: two calls of PseudoLabelGenerator.forward that return, on predictions
\* of the same shape whose decoded peak agrees for every (sample, keypoint)
\* map, return the same ground_truth and the same ground_false, whatever the
\* values of the predictions.
C27_PeaksDetermineOutput ==
  [][(/\ gen.cls = "PseudoLabelGenerator"
      /\ rd.cls = "none"
      /\ ret.kind = "value" /\ ret'.kind = "value"
      /\ SamePeaks(call.y, call'.y))
       => /\ ret'.value.ground_truth = ret.value.ground_truth
          /\ ret'.value.ground_false = ret.value.ground_false]_vars

\* forward has returned for a prediction whose confidence at a peak is higher
\* than that of the one-peak prediction with the same peaks, and returned what
\* it returns for that one.
C27_Witness ==
  /\ gen.cls = "PseudoLabelGenerator"
  /\ rd.cls = "none"
  /\ gen.num_keypoints = MaxK
  /\ ret.kind = "value"
  /\ With(Spike(BaseShape(gen, env), env.p0, env.stride), LAMBDA y0 :
       /\ call.y # y0
       /\ \E m \in 1..Len(y0.data) : y0.data[m] = PeakValue /\ call.y.data[m] > PeakValue
       /\ SamePeaks(call.y, y0)
       /\ ret.value = Generate(gen, y0))

-----------------------------------------------------------------------------
(* Cross-suppression and a keypoint's own peak, under SpecPeak *)

\* The decoded peaks of y1 and y2 agree on every channel but k.
PeaksAgreeOffChannel(y1, y2, k) ==
  /\ y1.shape = y2.shape
  /\ With(get_max_preds(y1), LAMBDA p1 :
       With(get_max_preds(y2), LAMBDA p2 :
         \A n \in 1..Len(p1) : (n - 1) % y1.shape[2] # k => p1[n] = p2[n]))

\* C28: in the cross-suppression classes, two calls that return and whose
\* decoded peaks differ only in keypoint k return the same channel k of
\* ground_false for every sample; with one keypoint ground_false is zero
\* everywhere.
C28_OwnPeakIgnored ==
  [][ret'.kind = "value" =>
       /\ gen.num_keypoints = 1 =>
            ret'.value.ground_false = Full(call'.y.shape, 0)
       /\ ret.kind = "value" =>
            \A k \in 0..(gen.num_keypoints - 1) :
              PeaksAgreeOffChannel(call.y, call'.y, k) =>
                \A b \in 0..(call.y.shape[1] - 1) :
                  MapOf(ret'.value.ground_false, b, k)
                    = MapOf(ret.value.ground_false, b, k)]_vars

\* forward has returned for a prediction whose middle keypoint is moved off
\* the one-peak prediction: its ground_truth differs there from that of the
\* one-peak prediction, and channel 1 of its ground_false is not zero and is
\* that of the one-peak prediction.
C28_Witness ==
  /\ gen.cls = "PseudoLabelGenerator"
  /\ gen.num_keypoints = MaxK
  /\ ret.kind = "value"
  /\ With(Spike(BaseShape(gen, env), env.p0, env.stride), LAMBDA y0 :
       /\ get_max_preds(call.y)[2] # get_max_preds(y0)[2]
       /\ PeaksAgreeOffChannel(call.y, y0, 1)
       /\ With(Generate(gen, y0), LAMBDA o :
            /\ MapOf(ret.value.ground_truth, 0, 1) # MapOf(o.ground_truth, 0, 1)
            /\ MapOf(ret.value.ground_false, 0, 1) = MapOf(o.ground_false, 0, 1)
            /\ \E p \in 1..(MaxH * MaxW) : MapOf(ret.value.ground_false, 0, 1)[p] > 0))

-----------------------------------------------------------------------------
(* ground_false of RegressionDisparity4, under SpecSparse *)

\* t[b, k] at pixel p of the row-major scan; b, k and p count from 0.
ValueAt(t, b, k, p) ==
  t.data[(b * t.shape[2] + k) * t.shape[3] * t.shape[4] + p + 1]

\* Some keypoint's ground-truth map of sample b is not 0 at pixel p.
Covered(gt, b, p) == \E j \in 0..(gt.shape[2] - 1) : ValueAt(gt, b, j, p) # 0

\* C29: after a forward of RegressionDisparity4 every ground_false[b, k, p] is
\* 0 where all ground-truth maps of sample b are 0 at p and 0 where
\* ground_truth[b, k, p] >= 0.1; it is positive only where some keypoint's map
\* is not 0 and ground_truth[b, k, p] < 0.1.  The complement rule gives 1 where
\* all ground-truth maps are 0.
C29_FalseOnlyUnderTemplates ==
  (Succeeded /\ rd.cls = "RegressionDisparity4") =>
    \A b \in 0..(rd.ground_truth.shape[1] - 1),
       k \in 0..(rd.ground_truth.shape[2] - 1),
       p \in 0..(rd.ground_truth.shape[3] * rd.ground_truth.shape[4] - 1) :
      /\ ~Covered(rd.ground_truth, b, p) =>
           /\ ValueAt(rd.ground_false, b, k, p) = 0
           /\ ValueAt(Complement(rd.ground_truth), b, k, p) = Scale
      /\ ValueAt(rd.ground_truth, b, k, p) * 10 >= Scale =>
           ValueAt(rd.ground_false, b, k, p) = 0
      /\ ValueAt(rd.ground_false, b, k, p) > 0 =>
           /\ Covered(rd.ground_truth, b, p)
           /\ ValueAt(rd.ground_truth, b, k, p) * 10 < Scale

\* A forward has returned for 21 keypoints whose peaks lie together: some pixel has
\* no template and ground_false 0, some pixel has ground truth of at least 0.1
\* and ground_false 0, and some pixel has ground_false above 0.
C29_Witness ==
  /\ Succeeded
  /\ rd.cls = "RegressionDisparity4"
  /\ rd.ground_false.shape = rd.ground_truth.shape
  /\ rd.ground_truth.shape[2] = RepeatCount
  /\ \E p \in 0..(MaxH * MaxW - 1) :
       ~Covered(rd.ground_truth, 0, p) /\ ValueAt(rd.ground_false, 0, 0, p) = 0
  /\ \E p \in 0..(MaxH * MaxW - 1) :
       /\ ValueAt(rd.ground_truth, 0, 0, p) * 10 >= Scale
       /\ ValueAt(rd.ground_false, 0, 0, p) = 0
  /\ \E p \in 0..(MaxH * MaxW - 1) :
       /\ ValueAt(rd.ground_false, 0, 0, p) > 0
       /\ ValueAt(rd.ground_truth, 0, 0, p) > 0

-----------------------------------------------------------------------------
(* The presence map of RegressionDisparity6, under SpecFloat *)

\* C30: in RegressionDisparity6, label_p is the greater of label_p1 and
\* label_p2 at the pixel, the outer clip leaves label_p1 + labelx1 as it is,
\* and label_p is the same when y and label_1 change places.
C30_LabelPIsMax ==
  call.op = "label_p" =>
    /\ ret.value.label_p = Max(ret.value.label_p1, ret.value.label_p2)
    /\ ret.value.label_p = ret.value.sum
    /\ ret.value.label_p
         = RegressionDisparity6_label_p(G32(env.d2), G32(env.d1)).label_p

=============================================================================
